---------------------------- MODULE Spec2Model ----------------------------
(***************************************************************************)
(* A model of VecDBMVP: the VectorStore (contiguous slots, tombstones,     *)
(* id <-> slot map), the HNSW index over it, the Serializer's on-disk      *)
(* artifacts and the Collection facade with its shared/exclusive lock.     *)
(*                                                                         *)
(* Slots are 0-based as in the source; TLA+ sequences are 1-based, so slot *)
(* i of a vector<T> v is v[i + 1].  A std::string is a sequence of         *)
(* one-character strings, so that the line-oriented ids.txt can be written *)
(* and parsed character by character.                                      *)
(***************************************************************************)
EXTENDS Integers, Sequences, FiniteSets, TLC

VARIABLES
  store_,    \* Collection::store_  (VectorStore)
  opt_,      \* Collection::opt_    (metric, hnsw_params; dim is Dim)
  hnsw_,     \* Collection::hnsw_   (unique_ptr<Hnsw>; NoIndex is nullptr)
  disk,      \* the files of the collection directory
  last,      \* the last operation, its arguments and what it returned
  mtx_,      \* Collection::mtx_ (shared_mutex): its writer and its readers
  visited_,  \* Hnsw::visited_ : the one stamp array all searches share
  th,        \* per thread: where it stands in its operation, and its locals
  metadata_, \* VectorStore::metadata_ : the Metadata of every slot
  twin_      \* a second Hnsw, built over the same store (nullptr until made)

coll == <<store_, opt_, hnsw_, disk>>
conc == <<mtx_, visited_, th>>
more == <<metadata_, twin_>>
vars == <<store_, opt_, hnsw_, disk, last, mtx_, visited_, th, metadata_, twin_>>

-----------------------------------------------------------------------------
(* Bounds and inputs *)

Dim == 2          \* the dimension of the store and of the collection
MaxSlots == 2     \* a Collection appends no slot beyond this many

NL == "\n"
CR == "\r"

\* The ids offered to the Collection: the empty id, a plain id and an id
\* that ends with a line feed.
Ids == {<<>>, <<"a">>, <<"a", NL>>}

\* Vectors of the right dimension, all with an integer norm: the queries,
\* and the vectors offered to upsert.
Vecs == {<<0, 0>>, <<1, 0>>, <<0, 1>>, <<3, 4>>}
UpsertVecs == {<<1, 0>>, <<3, 4>>}

\* A vector whose length differs from Dim.
BadVec == <<1>>

NullPtr == <<"nullptr">>
NoIndex == [present |-> FALSE]

-----------------------------------------------------------------------------
(* VectorStore *)

EmptyStore ==
  [dim |-> Dim, data |-> <<>>, alive |-> <<>>, ids |-> <<>>, id_to_index |-> <<>>]

size(s) == Len(s.ids)

is_alive(s, index) ==
  IF index >= Len(s.alive) THEN FALSE ELSE s.alive[index + 1] # 0

contains(s, id) ==
  IF id \notin DOMAIN s.id_to_index THEN FALSE
  ELSE is_alive(s, s.id_to_index[id])

id_at(s, index) ==
  IF index >= Len(s.ids) THEN <<"out_of_range">> ELSE s.ids[index + 1]

ptr_at_(s, index) ==
  [d \in 1..s.dim |-> s.data[index * s.dim + d]]

get_ptr(s, index) ==
  IF index >= size(s) THEN NullPtr
  ELSE IF ~is_alive(s, index) THEN NullPtr
  ELSE ptr_at_(s, index)

get_ptr_id(s, id) ==
  IF id \notin DOMAIN s.id_to_index THEN NullPtr
  ELSE get_ptr(s, s.id_to_index[id])

\* std::copy(vec.begin(), vec.end(), ptr_at_(idx))
CopyTo(data, dim, idx, vec) ==
  [k \in 1..Len(data) |->
     IF k > idx * dim /\ k <= idx * dim + Len(vec) THEN vec[k - idx * dim]
     ELSE data[k]]

\* vector<float>::resize(n): new elements are value-initialised
Resize(data, n) ==
  [k \in 1..n |-> IF k <= Len(data) THEN data[k] ELSE 0]

SetAt(seq, idx, v) == [seq EXCEPT ![idx + 1] = v]

MapPut(m, id, idx) ==
  [x \in (DOMAIN m) \cup {id} |-> IF x = id THEN idx ELSE m[x]]

Ok(s, r) == [st |-> s, ret |-> r, err |-> "none"]
Fail(s, e) == [st |-> s, ret |-> -1, err |-> e]

AppendSlot(s, id, vec) ==
  LET idx == Len(s.ids)
      ids1 == Append(s.ids, id)
      alive1 == Append(s.alive, 1)
      data1 == Resize(s.data, Len(ids1) * s.dim)
  IN Ok([s EXCEPT !.ids = ids1,
                  !.alive = alive1,
                  !.data = CopyTo(data1, s.dim, idx, vec),
                  !.id_to_index = MapPut(s.id_to_index, id, idx)], idx)

\* Faulty variants of the three mutators, each the slip a maintainer could
\* make: an insert that overwrites an alive id, an upsert that gives a
\* tombstoned id a fresh slot, a remove that also forgets the slot's id.
insert_overwrites_alive(s, id, vec) ==
  IF Len(vec) # s.dim THEN Fail(s, "DimMismatch")
  ELSE IF id = <<>> THEN Fail(s, "EmptyId")
  ELSE IF id \in DOMAIN s.id_to_index
    THEN LET idx == s.id_to_index[id] IN
         Ok([s EXCEPT !.data = CopyTo(s.data, s.dim, idx, vec),
                      !.alive = SetAt(s.alive, idx, 1)], idx)
  ELSE AppendSlot(s, id, vec)

upsert_appends_dead(s, id, vec) ==
  IF Len(vec) # s.dim THEN Fail(s, "DimMismatch")
  ELSE IF id = <<>> THEN Fail(s, "EmptyId")
  ELSE IF id \in DOMAIN s.id_to_index /\ is_alive(s, s.id_to_index[id])
    THEN LET idx == s.id_to_index[id] IN
         Ok([s EXCEPT !.data = CopyTo(s.data, s.dim, idx, vec)], idx)
  ELSE AppendSlot(s, id, vec)

remove_forgets_id(s, id) ==
  IF id \notin DOMAIN s.id_to_index THEN Ok(s, 0)
  ELSE LET idx == s.id_to_index[id] IN
       IF ~is_alive(s, idx) THEN Ok(s, 0)
       ELSE Ok([s EXCEPT !.alive = SetAt(s.alive, idx, 0),
                         !.ids = SetAt(s.ids, idx, <<>>)], 1)

insert(s, id, vec) ==
  IF Len(vec) # s.dim THEN Fail(s, "DimMismatch")
  ELSE IF id = <<>> THEN Fail(s, "EmptyId")
  ELSE IF id \in DOMAIN s.id_to_index
    THEN LET idx == s.id_to_index[id] IN
         IF is_alive(s, idx) THEN Fail(s, "DuplicateId")
         ELSE Ok([s EXCEPT !.data = CopyTo(s.data, s.dim, idx, vec),
                           !.alive = SetAt(s.alive, idx, 1)], idx)
  ELSE AppendSlot(s, id, vec)

upsert(s, id, vec) ==
  IF Len(vec) # s.dim THEN Fail(s, "DimMismatch")
  ELSE IF id = <<>> THEN Fail(s, "EmptyId")
  ELSE IF id \in DOMAIN s.id_to_index
    THEN LET idx == s.id_to_index[id] IN
         Ok([s EXCEPT !.data = CopyTo(s.data, s.dim, idx, vec),
                      !.alive = SetAt(s.alive, idx, 1),
                      !.ids = IF s.ids[idx + 1] = <<>>
                              THEN SetAt(s.ids, idx, id) ELSE s.ids], idx)
  ELSE AppendSlot(s, id, vec)

\* ret is 1 for true, 0 for false
remove(s, id) ==
  IF id \notin DOMAIN s.id_to_index THEN Ok(s, 0)
  ELSE LET idx == s.id_to_index[id] IN
       IF ~is_alive(s, idx) THEN Ok(s, 0)
       ELSE Ok([s EXCEPT !.alive = SetAt(s.alive, idx, 0)], 1)

clear(s) ==
  [s EXCEPT !.data = <<>>, !.alive = <<>>, !.ids = <<>>, !.id_to_index = <<>>]

\* The loop i = 0..N-1 with id_to_index_[ids_[i]] = i: the last slot that
\* carries an id wins.
RebuildMap(ids) ==
  LET named == {ids[k] : k \in {j \in 1..Len(ids) : ids[j] # <<>>}}
      lastOf(x) == CHOOSE k \in 1..Len(ids) :
                     /\ ids[k] = x
                     /\ \A j \in 1..Len(ids) : ids[j] = x => j <= k
  IN [x \in named |-> lastOf(x) - 1]

load_from_disk(s, N, vectors, alive, ids) ==
  IF N = 0 THEN Ok(clear(s), 0)
  ELSE IF Len(alive) # N THEN Fail(s, "SizeMismatch")
  ELSE IF Len(ids) # N THEN Fail(s, "SizeMismatch")
  ELSE IF Len(vectors) # N * s.dim THEN Fail(s, "SizeMismatch")
  ELSE Ok([s EXCEPT !.ids = ids, !.alive = alive, !.data = vectors,
                    !.id_to_index = RebuildMap(ids)], 0)


-----------------------------------------------------------------------------
(* Distance.  The vectors of Vecs have small integer coordinates and an    *)
(* integer norm, so every float operation below is exact except the one    *)
(* division of cosine_similarity; a cosine distance is kept as the exact   *)
(* rational 1 - dot/(|a||b|) in units of 1/CosScale, which orders the      *)
(* values as the rounded floats do.                                        *)

CosScale == 5 * 5

RECURSIVE SumTo(_, _)
SumTo(f, n) == IF n = 0 THEN 0 ELSE f[n] + SumTo(f, n - 1)

l2_sq(a, b) == SumTo([i \in 1..Len(a) |-> (a[i] - b[i]) * (a[i] - b[i])], Len(a))

dot(a, b) == SumTo([i \in 1..Len(a) |-> a[i] * b[i]], Len(a))

\* std::sqrt on a perfect square
norm(a) == CHOOSE r \in 0..dot(a, a) : r * r = dot(a, a)

\* in units of 1/CosScale
cosine_similarity(a, b) ==
  LET denom == norm(a) * norm(b)
  IN IF denom = 0 THEN 0 ELSE (CosScale * dot(a, b)) \div denom

cosine_distance(a, b) == CosScale - cosine_similarity(a, b)

distance(metric, a, b) ==
  CASE metric = "L2" -> l2_sq(a, b)
    [] metric = "COSINE" -> cosine_distance(a, b)
    [] OTHER -> l2_sq(a, b)

\* std::numeric_limits<float>::infinity()
Infinity == 1000 * 1000

-----------------------------------------------------------------------------
(* Hnsw: the level generator.  unsigned is 32 bits wide; a state is kept as *)
(* its two 16-bit halves so that the products stay below 2^31.             *)

Half == 2 ^ 16

U32(x) == [hi |-> (x \div Half) % Half, lo |-> x % Half]

\* state * 1664525u + 1013904223u  (1664525 = 25 * 2^16 + 26125,
\* 1013904223 = 15470 * 2^16 + 62303)
lcg_next(state) ==
  LET lowprod == state.lo * 26125
      lo1 == lowprod % Half
      hi1 == (state.hi * 26125 + state.lo * 25 + lowprod \div Half) % Half
      lo2 == lo1 + 62303
  IN [hi |-> (hi1 + 15470 + lo2 \div Half) % Half, lo |-> lo2 % Half]

\* lcg_next(state) >> 8, the numerator of the uniform float x / 2^24
lcg_uniform01(state) ==
  LET s == lcg_next(state) IN s.hi * 256 + s.lo \div 256

\* exp(-1 / max(0.0001, level_mult)) as a float, times 2^24: the draw
\* x / 2^24 < p holds exactly when x < PThreshold.  level_mult is 0, 1, 2,
\* 100 or 10^9 (where the float p is 1).
PThreshold(level_mult) ==
  CASE level_mult = 0 -> 0
    [] level_mult = 1 -> 6171993
    [] level_mult = 2 -> 10175896
    [] level_mult = 100 -> 16610280
    [] level_mult = 1000000000 -> 16777216

RECURSIVE LevelLoop(_, _, _)
LevelLoop(state, lvl, thr) ==
  LET s == lcg_next(state) IN
  IF lcg_uniform01(state) < thr
    THEN IF lvl + 1 > 64 THEN [lvl |-> lvl + 1, state |-> s]
         ELSE LevelLoop(s, lvl + 1, thr)
    ELSE [lvl |-> lvl, state |-> s]

\* a faulty variant: one generator for all indexes, here the one of hnsw_
random_level_shared(h) ==
  LET g == IF hnsw_.present /\ hnsw_.rng_inited THEN hnsw_ ELSE h
      st0 == IF g.rng_inited THEN g.rng_state ELSE U32(h.params.seed)
      r == LevelLoop(st0, 0, PThreshold(h.params.level_mult))
  IN [lvl |-> r.lvl, h |-> [h EXCEPT !.rng_inited = TRUE, !.rng_state = r.state]]

\* returns the level and the generator with its state advanced
random_level(h) ==
  LET st0 == IF h.rng_inited THEN h.rng_state ELSE U32(h.params.seed)
      r == LevelLoop(st0, 0, PThreshold(h.params.level_mult))
  IN [lvl |-> r.lvl, h |-> [h EXCEPT !.rng_inited = TRUE, !.rng_state = r.state]]


-----------------------------------------------------------------------------
(* Hnsw: layer search.  A std::priority_queue is kept as the sequence of   *)
(* its elements in pop order, top first; among equal distances, whose      *)
(* order the standard leaves open, the element pushed first is popped      *)
(* first.  With one caller the Visited buffer is the set of slots marked   *)
(* since the call's start(): every search_level begins with start(), and   *)
(* between two calls the buffer is never read.  The specification of       *)
(* concurrent callers keeps the shared buffer itself, marks and stamp.     *)

Cand(index, dist) == [index |-> index, dist |-> dist]

\* push into a min-heap on dist (MinHeap)
PushMin(pq, c) ==
  LET k == Cardinality({j \in 1..Len(pq) : pq[j].dist <= c.dist})
  IN SubSeq(pq, 1, k) \o <<c>> \o SubSeq(pq, k + 1, Len(pq))

\* push into a max-heap on dist (MaxHeap)
PushMax(pq, c) ==
  LET k == Cardinality({j \in 1..Len(pq) : pq[j].dist >= c.dist})
  IN SubSeq(pq, 1, k) \o <<c>> \o SubSeq(pq, k + 1, Len(pq))

\* std::sort ascending by distance, as the insertion sort it is on short
\* ranges: equal distances keep their order
RECURSIVE SortAsc(_)
SortAsc(out) ==
  IF out = <<>> THEN <<>>
  ELSE PushMin(SortAsc(SubSeq(out, 1, Len(out) - 1)), out[Len(out)])

Result(c) == [index |-> c.index, distance |-> c.dist]

node_level(h, index) ==
  IF index >= Len(h.graph_) THEN -1
  ELSE IF h.graph_[index + 1] = <<>> THEN -1
  ELSE Len(h.graph_[index + 1]) - 1

max_deg(h, level) == IF level = 0 THEN h.params.M0 ELSE h.params.M

dist_to(h, s, query, idx) ==
  LET v == get_ptr(s, idx)
  IN IF v = NullPtr THEN Infinity ELSE distance(h.metric_, query, v)

\* a faulty variant: a closer neighbour is pushed and the worst result stays
Offer_no_pop(cr, ef, nb, d) ==
  IF Len(cr.results) < ef \/ d < cr.results[1].dist
    THEN [candidates |-> PushMin(cr.candidates, Cand(nb, d)),
          results |-> PushMax(cr.results, Cand(nb, d))]
  ELSE cr

\* what the for loop of search_level does with a neighbour nb at distance d
\* that it has not visited: cr = [candidates, results]
Offer(cr, ef, nb, d) ==
  IF Len(cr.results) < ef
    THEN [candidates |-> PushMin(cr.candidates, Cand(nb, d)),
          results |-> PushMax(cr.results, Cand(nb, d))]
  ELSE IF d < cr.results[1].dist
    THEN LET r1 == PushMax(cr.results, Cand(nb, d))
         IN [candidates |-> PushMin(cr.candidates, Cand(nb, d)),
             results |-> IF Len(r1) > ef THEN Tail(r1) ELSE r1]
  ELSE cr

\* the for loop over nbrs of search_level, from position k on;
\* st = [candidates, results, visited]
RECURSIVE NbrLoop(_, _, _, _, _, _, _)
NbrLoop(h, s, query, ef, nbrs, k, st) ==
  IF k > Len(nbrs) THEN st
  ELSE
    LET nb == nbrs[k] IN
    IF ~is_alive(s, nb) THEN NbrLoop(h, s, query, ef, nbrs, k + 1, st)
    ELSE IF nb \in st.visited THEN NbrLoop(h, s, query, ef, nbrs, k + 1, st)
    ELSE
      LET cr == Offer([candidates |-> st.candidates, results |-> st.results],
                      ef, nb, dist_to(h, s, query, nb))
      IN NbrLoop(h, s, query, ef, nbrs, k + 1,
                 [candidates |-> cr.candidates, results |-> cr.results,
                  visited |-> st.visited \cup {nb}])

\* the while loop of search_level
RECURSIVE ExpandLoop(_, _, _, _, _, _)
ExpandLoop(h, s, query, level, ef, st) ==
  IF st.candidates = <<>> THEN st
  ELSE
    LET c == st.candidates[1]
        st1 == [st EXCEPT !.candidates = Tail(st.candidates)]
        worst == st.results[1]
    IN IF c.dist > worst.dist THEN st1
       ELSE IF node_level(h, c.index) < level
         THEN ExpandLoop(h, s, query, level, ef, st1)
       ELSE ExpandLoop(h, s, query, level, ef,
              NbrLoop(h, s, query, ef, h.graph_[c.index + 1][level + 1], 1, st1))

\* results drained from the max-heap (worst first), then sorted ascending
Drain(results) == [k \in 1..Len(results) |-> Result(SortAsc(results)[k])]

search_level(h, s, query, entry, level, ef) ==
  IF ~h.has_entry_ \/ ef = 0 THEN <<>>
  ELSE IF ~is_alive(s, entry) THEN <<>>
  ELSE
    LET entry_d == dist_to(h, s, query, entry)
        st0 == [candidates |-> <<Cand(entry, entry_d)>>,
                results |-> <<Cand(entry, entry_d)>>,
                visited |-> {entry}]
    IN Drain(ExpandLoop(h, s, query, level, ef, st0).results)

greedy_descent(h, s, query, entry, level) ==
  LET res == search_level(h, s, query, entry, level, 1)
  IN IF res = <<>> THEN entry ELSE res[1].index

\* ep after the loop "for (l = from; l > downTo; --l) ep = greedy_descent"
RECURSIVE Descend(_, _, _, _, _, _)
Descend(h, s, query, ep, from, downTo) ==
  IF from <= downTo THEN ep
  ELSE Descend(h, s, query, greedy_descent(h, s, query, ep, from), from - 1, downTo)

Max(a, b) == IF a >= b THEN a ELSE b
Min(a, b) == IF a <= b THEN a ELSE b

\* Hnsw::search on a query of the store's dimension
hnsw_search(h, s, query, k, ef_search) ==
  IF ~h.has_entry_ \/ k = 0 THEN <<>>
  ELSE
    LET ep == Descend(h, s, query, h.entry_point_, h.max_level_, 0)
        ef == Max(ef_search, k)
        res == search_level(h, s, query, ep, 0, ef)
    IN IF Len(res) > k THEN SubSeq(res, 1, k) ELSE res


-----------------------------------------------------------------------------
(* Hnsw: neighbour selection, pruning and insert *)

NewHnsw(metric, params) ==
  [present |-> TRUE, metric_ |-> metric, params |-> params, graph_ |-> <<>>,
   entry_point_ |-> 0, has_entry_ |-> FALSE, max_level_ |-> -1,
   rng_inited |-> FALSE, rng_state |-> U32(0), store_ref |-> "own"]

\* a faulty variant: one neighbour fewer than allowed is kept
select_neighbors_simple_one_short(candidates, M) ==
  [i \in 1..Min(M - 1, Len(candidates)) |-> candidates[i].index]

select_neighbors_simple(candidates, M) ==
  [i \in 1..Min(M, Len(candidates)) |-> candidates[i].index]

InSeq(x, seq) == \E k \in 1..Len(seq) : seq[k] = x

\* the inner loop over selected: TRUE when no selected s is closer to c than
\* the base is
DiverseOk(h, s, c, dc_base, selected) ==
  \A j \in 1..Len(selected) :
     \/ get_ptr(s, selected[j]) = NullPtr
     \/ ~(distance(h.metric_, get_ptr(s, c), get_ptr(s, selected[j])) < dc_base)

\* first pass of select_neighbors_diverse, from candidate k on
RECURSIVE DiversePass(_, _, _, _, _, _, _)
DiversePass(h, s, base, candidates, M, k, selected) ==
  IF k > Len(candidates) \/ Len(selected) >= M THEN selected
  ELSE
    LET c == candidates[k].index IN
    IF ~is_alive(s, c) \/ c = base \/ get_ptr(s, c) = NullPtr
      THEN DiversePass(h, s, base, candidates, M, k + 1, selected)
    ELSE IF DiverseOk(h, s, c, candidates[k].distance, selected)
      THEN DiversePass(h, s, base, candidates, M, k + 1, Append(selected, c))
    ELSE DiversePass(h, s, base, candidates, M, k + 1, selected)

\* the fill step, from candidate k on
RECURSIVE FillPass(_, _, _, _, _, _)
FillPass(s, base, candidates, M, k, selected) ==
  IF k > Len(candidates) \/ Len(selected) >= M THEN selected
  ELSE
    LET c == candidates[k].index IN
    IF ~is_alive(s, c) \/ c = base \/ InSeq(c, selected)
      THEN FillPass(s, base, candidates, M, k + 1, selected)
    ELSE FillPass(s, base, candidates, M, k + 1, Append(selected, c))

\* a faulty variant: the diversity pass without the fill step
select_neighbors_diverse_no_fill(h, s, base, candidates, M) ==
  IF get_ptr(s, base) = NullPtr THEN <<>>
  ELSE DiversePass(h, s, base, candidates, M, 1, <<>>)

select_neighbors_diverse(h, s, base, candidates, M) ==
  IF get_ptr(s, base) = NullPtr THEN <<>>
  ELSE
    LET selected == DiversePass(h, s, base, candidates, M, 1, <<>>)
    IN IF Len(selected) < M THEN FillPass(s, base, candidates, M, 1, selected)
       ELSE selected

SetLinks(h, node, level, nbrs) ==
  [h EXCEPT !.graph_[node + 1][level + 1] = nbrs]

\* cand of prune_neighbors: the neighbours with a vector, with their
\* distance to the node, sorted ascending
RECURSIVE PruneCand(_, _, _, _, _)
PruneCand(h, s, base, nbrs, k) ==
  IF k = 0 THEN <<>>
  ELSE
    LET rest == PruneCand(h, s, base, nbrs, k - 1)
        v == get_ptr(s, nbrs[k])
    IN IF v = NullPtr THEN rest
       ELSE PushMin(rest, Cand(nbrs[k], distance(h.metric_, base, v)))

\* faulty variants: a prune that keeps every neighbour, and a connect that
\* files b one layer too high in a's lists when a has that layer
prune_neighbors_keeps_all(h, s, node, level) == h

prune_neighbors(h, s, node, level) ==
  IF node_level(h, node) < level THEN h
  ELSE
    LET nbrs == h.graph_[node + 1][level + 1]
        M == max_deg(h, level)
    IN IF Len(nbrs) <= M THEN h
       ELSE IF get_ptr(s, node) = NullPtr THEN h
       ELSE
         LET sorted == PruneCand(h, s, get_ptr(s, node), nbrs, Len(nbrs))
             cand == [k \in 1..Len(sorted) |-> Result(sorted[k])]
             kept == IF h.params.use_diversity
                       THEN select_neighbors_diverse(h, s, node, cand, M)
                     ELSE select_neighbors_simple(cand, M)
         IN SetLinks(h, node, level, kept)

connect_bidirectional_layer_up(h, s, a, b, level) ==
  IF node_level(h, a) < level \/ node_level(h, b) < level THEN h
  ELSE
    LET up == IF node_level(h, a) > level THEN level + 1 ELSE level
        h1 == SetLinks(h, a, up, Append(h.graph_[a + 1][up + 1], b))
        h2 == SetLinks(h1, b, level, Append(h1.graph_[b + 1][level + 1], a))
    IN h2

connect_bidirectional(h, s, a, b, level) ==
  IF node_level(h, a) < level \/ node_level(h, b) < level THEN h
  ELSE
    LET h1 == SetLinks(h, a, level, Append(h.graph_[a + 1][level + 1], b))
        h2 == SetLinks(h1, b, level, Append(h1.graph_[b + 1][level + 1], a))
    IN prune_neighbors(prune_neighbors(h2, s, a, level), s, b, level)

ensure_node(h, index) ==
  IF index >= Len(h.graph_)
    THEN [h EXCEPT !.graph_ =
            [k \in 1..(index + 1) |-> IF k <= Len(h.graph_) THEN h.graph_[k] ELSE <<>>]]
  ELSE h

\* vector::resize of the node's links to n lists
ResizeLinks(links, n) ==
  [k \in 1..n |-> IF k <= Len(links) THEN links[k] ELSE <<>>]

\* the loop "for (auto nb : chosen)" of insert, from position k on
RECURSIVE ConnectLoop(_, _, _, _, _, _)
ConnectLoop(h, s, index, chosen, l, k) ==
  IF k > Len(chosen) THEN h
  ELSE
    LET nb == chosen[k]
        h1 == ensure_node(h, nb)
    IN IF node_level(h1, nb) < l THEN ConnectLoop(h1, s, index, chosen, l, k + 1)
       ELSE ConnectLoop(connect_bidirectional(h1, s, index, nb, l),
                        s, index, chosen, l, k + 1)

\* the loop "for (l = min(lvl, max_level_); l >= 0; --l)" of insert
RECURSIVE LayerLoop(_, _, _, _, _)
LayerLoop(h, s, index, ep, l) ==
  IF l < 0 THEN h
  ELSE
    LET q == get_ptr(s, index)
        found == search_level(h, s, q, ep, l, h.params.ef_construction)
        candidates == SelectSeq(found, LAMBDA r : r.index # index)
        M == max_deg(h, l)
        chosen == IF h.params.use_diversity
                    THEN select_neighbors_diverse(h, s, index, candidates, M)
                  ELSE select_neighbors_simple(candidates, M)
        h1 == ConnectLoop(h, s, index, chosen, l, 1)
        ep1 == IF candidates # <<>> THEN candidates[1].index ELSE ep
    IN LayerLoop(h1, s, index, ep1, l - 1)

\* a faulty variant: a node as high as max_level_ takes the entry point over
hnsw_insert_entry_on_tie(h, s, index) ==
  IF ~is_alive(s, index) THEN h
  ELSE
    LET h1 == ensure_node(h, index)
        r == random_level(h1)
        lvl == r.lvl
        h2 == [r.h EXCEPT !.graph_[index + 1] = ResizeLinks(@, lvl + 1)]
    IN IF ~h2.has_entry_
         THEN [h2 EXCEPT !.entry_point_ = index, !.has_entry_ = TRUE,
                         !.max_level_ = lvl]
       ELSE IF get_ptr(s, index) = NullPtr THEN h2
       ELSE
         LET q == get_ptr(s, index)
             ep == Descend(h2, s, q, h2.entry_point_, h2.max_level_, lvl)
             h3 == LayerLoop(h2, s, index, ep, Min(lvl, h2.max_level_))
         IN IF lvl >= h3.max_level_
              THEN [h3 EXCEPT !.max_level_ = lvl, !.entry_point_ = index]
            ELSE h3

\* Hnsw::insert: the index after inserting slot index of store s
hnsw_insert(h, s, index) ==
  IF ~is_alive(s, index) THEN h
  ELSE
    LET h1 == ensure_node(h, index)
        r == random_level(h1)
        lvl == r.lvl
        h2 == [r.h EXCEPT !.graph_[index + 1] = ResizeLinks(@, lvl + 1)]
    IN IF ~h2.has_entry_
         THEN [h2 EXCEPT !.entry_point_ = index, !.has_entry_ = TRUE,
                         !.max_level_ = lvl]
       ELSE IF get_ptr(s, index) = NullPtr THEN h2
       ELSE
         LET q == get_ptr(s, index)
             ep == Descend(h2, s, q, h2.entry_point_, h2.max_level_, lvl)
             h3 == LayerLoop(h2, s, index, ep, Min(lvl, h2.max_level_))
         IN IF lvl > h3.max_level_
              THEN [h3 EXCEPT !.max_level_ = lvl, !.entry_point_ = index]
            ELSE h3


-----------------------------------------------------------------------------
(* Hnsw: export / import *)

export_graph(h, s) ==
  [entry_point |-> h.entry_point_,
   has_entry |-> h.has_entry_,
   max_level |-> h.max_level_,
   nodes |-> [i \in 1..size(s) |->
                IF i > Len(h.graph_) \/ h.graph_[i] = <<>>
                  THEN [level |-> -1, links |-> <<>>]
                ELSE [level |-> Len(h.graph_[i]) - 1, links |-> h.graph_[i]]]]

\* [h, err]: the scalar fields are assigned before the node count is checked
import_graph(h, s, ex) ==
  LET h1 == [h EXCEPT !.entry_point_ = ex.entry_point,
                      !.has_entry_ = ex.has_entry,
                      !.max_level_ = ex.max_level]
      N == size(s)
      bad == {i \in 1..N : ex.nodes[i].level >= 0
                           /\ Len(ex.nodes[i].links) # ex.nodes[i].level + 1}
  IN IF Len(ex.nodes) # N THEN [h |-> h1, err |-> "CorruptedState"]
     ELSE IF bad # {}
       THEN LET first == CHOOSE i \in bad : \A j \in bad : i <= j
            IN [h |-> [h1 EXCEPT !.graph_ =
                         [i \in 1..N |-> IF i < first /\ ex.nodes[i].level >= 0
                                           THEN ex.nodes[i].links ELSE <<>>]],
                err |-> "CorruptedState"]
     ELSE [h |-> [h1 EXCEPT !.graph_ =
                    [i \in 1..N |-> IF ex.nodes[i].level < 0 THEN <<>>
                                    ELSE ex.nodes[i].links],
                  !.rng_inited = FALSE],
           err |-> "none"]

-----------------------------------------------------------------------------
(* Serializer.  A file is a record of the fields written to it, in the     *)
(* order written; ids.txt is the character sequence itself.                *)

NoFile == [exists |-> FALSE]

MAGIC_VEC == "VECV_1"
MAGIC_ALV == "ALV_1"
HNSW_MAGIC == "HNSWv1"

metric_to_string(m) ==
  CASE m = "L2" -> <<"L", "2">>
    [] m = "COSINE" -> <<"C", "O", "S", "I", "N", "E">>
    [] OTHER -> <<"L", "2">>

metric_from_string(str) ==
  IF str = <<"L", "2">> THEN "L2"
  ELSE IF str = <<"C", "O", "S", "I", "N", "E">> THEN "COSINE"
  ELSE "L2"

\* The numbers of the manifest are written in decimal and parsed back; the
\* values of level_mult used here (0, 1, 2) print exactly.
write_manifest(mf) ==
  [exists |-> TRUE, version |-> mf.version, dim |-> mf.dim,
   metric |-> metric_to_string(mf.metric), hnsw |-> mf.hnsw_params]

read_manifest(file) ==
  IF ~file.exists THEN [err |-> "IoError"]
  ELSE IF file.dim = 0 THEN [err |-> "CorruptedState"]
  ELSE [err |-> "none", version |-> file.version, dim |-> file.dim,
        metric |-> metric_from_string(file.metric), hnsw_params |-> file.hnsw]

RECURSIVE Concat(_)
Concat(seqs) == IF seqs = <<>> THEN <<>> ELSE Head(seqs) \o Concat(Tail(seqs))

\* vectors.bin: a dead slot is written as zeros
SaveVectors(s) ==
  [exists |-> TRUE, magic |-> MAGIC_VEC, N |-> size(s), dim |-> s.dim,
   floats |-> Concat([i \in 1..size(s) |->
                        IF get_ptr(s, i - 1) = NullPtr THEN [d \in 1..s.dim |-> 0]
                        ELSE get_ptr(s, i - 1)])]

SaveAlive(s) ==
  [exists |-> TRUE, magic |-> MAGIC_ALV, N |-> size(s),
   bytes |-> [i \in 1..size(s) |-> IF is_alive(s, i - 1) THEN 1 ELSE 0]]

\* ids.txt: out << store.id_at(i) << "\n" for every slot
SaveIds(s) ==
  [exists |-> TRUE,
   text |-> Concat([i \in 1..size(s) |-> id_at(s, i - 1) \o <<NL>>])]

\* the files save_store writes
save_store(d, s) ==
  [d EXCEPT !.vectors = SaveVectors(s), !.alive = SaveAlive(s), !.ids = SaveIds(s)]

\* std::getline from position pos: the characters up to the next line feed,
\* which is consumed; at the end of the text it fails
GetLine(text, pos) ==
  IF pos > Len(text) THEN [ok |-> FALSE, line |-> <<>>, next |-> pos]
  ELSE
    LET stops == {k \in pos..Len(text) : text[k] = NL}
        stop == IF stops = {} THEN Len(text) + 1
                ELSE CHOOSE k \in stops : \A j \in stops : k <= j
    IN [ok |-> TRUE, line |-> SubSeq(text, pos, stop - 1), next |-> stop + 1]

StripCR(line) ==
  IF line # <<>> /\ line[Len(line)] = CR THEN SubSeq(line, 1, Len(line) - 1)
  ELSE line

\* the loop of load_store over ids.txt: N lines from position pos
RECURSIVE ReadIds(_, _, _)
ReadIds(text, pos, N) ==
  IF N = 0 THEN <<>>
  ELSE LET g == GetLine(text, pos)
           line == IF g.ok THEN g.line ELSE <<>>
       IN <<StripCR(line)>> \o ReadIds(text, g.next, N - 1)

\* [st, err]: the store after load_store
load_store(d, s) ==
  IF ~d.vectors.exists THEN Fail(s, "IoError")
  ELSE IF d.vectors.magic # MAGIC_VEC THEN Fail(s, "CorruptedState")
  ELSE IF d.vectors.dim # s.dim THEN Fail(s, "CorruptedState")
  ELSE IF Len(d.vectors.floats) # d.vectors.N * d.vectors.dim THEN Fail(s, "IoError")
  ELSE IF ~d.alive.exists THEN Fail(s, "IoError")
  ELSE IF d.alive.magic # MAGIC_ALV THEN Fail(s, "CorruptedState")
  ELSE IF d.alive.N # d.vectors.N THEN Fail(s, "CorruptedState")
  ELSE IF Len(d.alive.bytes) # d.vectors.N THEN Fail(s, "IoError")
  ELSE IF ~d.ids.exists THEN Fail(s, "IoError")
  ELSE load_from_disk(s, d.vectors.N, d.vectors.floats, d.alive.bytes,
                      ReadIds(d.ids.text, 1, d.vectors.N))

\* hnsw.bin.  The node records come from export_graph, which sizes them by
\* the store the index refers to.
save_hnsw(h, hs, s) ==
  LET ex == export_graph(h, hs)
  IN [exists |-> TRUE, magic |-> HNSW_MAGIC, N |-> size(s),
      max_level |-> h.max_level_, entry_point |-> ex.entry_point,
      has_entry |-> IF ex.has_entry THEN 1 ELSE 0,
      nodes |-> ex.nodes]

\* [h, err]: the index after load_hnsw into the fresh index h.  A file with
\* fewer node records than N runs into the end of the stream.
load_hnsw(file, h, s) ==
  IF ~file.exists THEN [h |-> h, err |-> "IoError"]
  ELSE IF file.magic # HNSW_MAGIC THEN [h |-> h, err |-> "CorruptedState"]
  ELSE IF file.N # size(s) THEN [h |-> h, err |-> "CorruptedState"]
  ELSE IF Len(file.nodes) < file.N THEN [h |-> h, err |-> "IoError"]
  ELSE import_graph(h, s,
         [entry_point |-> file.entry_point, has_entry |-> file.has_entry # 0,
          max_level |-> file.max_level,
          nodes |-> SubSeq(file.nodes, 1, file.N)])


-----------------------------------------------------------------------------
(* Collection *)

Metrics == {"L2", "COSINE"}

ParamsA ==
  [M |-> 2, M0 |-> 2, ef_construction |-> 3, use_diversity |-> TRUE,
   seed |-> 123, level_mult |-> 1]

ParamsB ==
  [M |-> 1, M0 |-> 2, ef_construction |-> 2, use_diversity |-> FALSE,
   seed |-> 3, level_mult |-> 1]

ParamChoices == {ParamsA}

\* the arguments offered to search
SearchQs == {<<1, 0>>, BadVec}
SearchKs == {0, 2}
SearchEfs == {1, 3}

Crash == <<"crash">>

Threads == {1, 2}

\* Visited(): no marks, stamp_ = 1
NewVisited == [mark |-> <<>>, stamp |-> 1]

Idle == [pc |-> "idle"]
Unlocked == [writer |-> 0, readers |-> {}]

Last(op, id, ret, err) == [op |-> op, id |-> id, ret |-> ret, err |-> err]

has_index(h) == h.present

\* The store an index reads through its reference store_.  The reference is
\* bound to the Collection object the index was made in; once that object
\* has been moved from and destroyed (store_ref = "stale") the reference
\* dangles, and what it reads is the moved-from, empty store.
StoreSeen(h, s) == IF h.store_ref = "own" THEN s ELSE EmptyStore

\* the loop of build_index over the slots, from slot i on
RECURSIVE BuildLoop(_, _, _)
BuildLoop(h, s, i) ==
  IF i >= size(s) THEN h
  ELSE IF is_alive(s, i) THEN BuildLoop(hnsw_insert(h, s, i), s, i + 1)
  ELSE BuildLoop(h, s, i + 1)

\* Collection::save: the directory after it
SaveAll(d, s, opt, h) ==
  LET d1 == [d EXCEPT !.manifest =
               write_manifest([version |-> 1, dim |-> Dim, metric |-> opt.metric,
                               hnsw_params |-> opt.hnsw_params])]
      d2 == save_store(d1, s)
  IN IF h.present THEN [d2 EXCEPT !.hnsw = save_hnsw(h, StoreSeen(h, s), s)]
     ELSE [d2 EXCEPT !.hnsw = NoFile]

\* Collection::load: [st, h, err]
LoadAll(d, s, opt, h) ==
  LET r == load_store(d, s) IN
  IF r.err # "none" THEN [st |-> s, h |-> h, err |-> r.err]
  ELSE IF d.hnsw.exists
    THEN LET g == load_hnsw(d.hnsw, NewHnsw(opt.metric, opt.hnsw_params), r.st)
         IN [st |-> r.st, h |-> g.h, err |-> g.err]
  ELSE [st |-> r.st, h |-> NoIndex, err |-> "none"]

EmptyDir == [manifest |-> NoFile, vectors |-> NoFile, alive |-> NoFile,
             ids |-> NoFile, hnsw |-> NoFile]

\* Collection::create(dir, opt): an empty collection, saved at once
Init ==
  /\ opt_ \in [metric : Metrics, hnsw_params : ParamChoices]
  /\ store_ = EmptyStore
  /\ hnsw_ = NoIndex
  /\ disk = SaveAll(EmptyDir, EmptyStore, opt_, NoIndex)
  /\ last = Last("create", <<>>, 0, "none")
  /\ mtx_ = Unlocked
  /\ visited_ = NewVisited
  /\ th = [t \in Threads |-> Idle]
  /\ metadata_ = <<>>
  /\ twin_ = NoIndex

\* Faulty variants: an upsert that keeps the index it has invalidated, and
\* a remove that drops the index whether or not it removed anything.
UpsertKeepsIndex(id, vec) ==
  /\ id \in DOMAIN store_.id_to_index \/ size(store_) < MaxSlots
  /\ IF Len(vec) # Dim
       THEN /\ last' = Last("upsert", id, -1, "DimMismatch")
            /\ UNCHANGED <<store_, hnsw_>>
     ELSE LET r == upsert(store_, id, vec) IN
          IF r.err # "none"
            THEN /\ last' = Last("upsert", id, -1, r.err)
                 /\ UNCHANGED <<store_, hnsw_>>
          ELSE /\ store_' = r.st
               /\ hnsw_' = hnsw_
               /\ last' = Last("upsert", id, r.ret, "none")
  /\ UNCHANGED <<opt_, disk>>

RemoveAlwaysDrops(id) ==
  LET r == remove(store_, id) IN
  /\ store_' = r.st
  /\ hnsw_' = NoIndex
  /\ last' = Last("remove", id, r.ret, "none")
  /\ UNCHANGED <<opt_, disk>>

\* Collection::upsert(id, vec)
Upsert(id, vec) ==
  /\ id \in DOMAIN store_.id_to_index \/ size(store_) < MaxSlots
  /\ IF Len(vec) # Dim
       THEN /\ last' = Last("upsert", id, -1, "DimMismatch")
            /\ UNCHANGED <<store_, hnsw_>>
     ELSE LET r == upsert(store_, id, vec) IN
          IF r.err # "none"
            THEN /\ last' = Last("upsert", id, -1, r.err)
                 /\ UNCHANGED <<store_, hnsw_>>
          ELSE /\ store_' = r.st
               /\ hnsw_' = NoIndex
               /\ last' = Last("upsert", id, r.ret, "none")
  /\ UNCHANGED <<opt_, disk>>

\* Collection::remove(id)
Remove(id) ==
  LET r == remove(store_, id) IN
  /\ store_' = r.st
  /\ hnsw_' = IF r.ret = 1 /\ hnsw_.present THEN NoIndex ELSE hnsw_
  /\ last' = Last("remove", id, r.ret, "none")
  /\ UNCHANGED <<opt_, disk>>

\* Collection::set_metric(m)
SetMetric(m) ==
  /\ opt_' = [opt_ EXCEPT !.metric = m]
  /\ hnsw_' = NoIndex
  /\ last' = Last("set_metric", <<>>, 0, "none")
  /\ UNCHANGED <<store_, disk>>

\* Collection::set_hnsw_params(p)
SetHnswParams(p) ==
  /\ opt_' = [opt_ EXCEPT !.hnsw_params = p]
  /\ hnsw_' = NoIndex
  /\ last' = Last("set_hnsw_params", <<>>, 0, "none")
  /\ UNCHANGED <<store_, disk>>

\* Collection::build_index()
BuildIndex ==
  /\ hnsw_' = BuildLoop(NewHnsw(opt_.metric, opt_.hnsw_params), store_, 0)
  /\ last' = Last("build_index", <<>>, 0, "none")
  /\ UNCHANGED <<store_, opt_, disk>>

\* What Collection::search(query, k, ef_search) can return in a collection
\* with store s and index h: one result when the index's store reference
\* is good; through a dangling reference the behaviour is undefined: the
\* search reads the moved-from store, or faults.
SearchOutcomes(h, s, query, k, ef_search) ==
  IF Len(query) # Dim THEN {[err |-> "DimMismatch", res |-> <<>>]}
  ELSE IF ~h.present THEN {[err |-> "IndexNotReady", res |-> <<>>]}
  ELSE IF h.store_ref = "own"
    THEN {[err |-> "none", res |-> hnsw_search(h, s, query, k, ef_search)]}
  ELSE {[err |-> "none", res |-> hnsw_search(h, EmptyStore, query, k, ef_search)],
        [err |-> "crash", res |-> Crash]}

\* Collection::search(query, k, ef_search)
Search(query, k, ef_search) ==
  /\ \E o \in SearchOutcomes(hnsw_, store_, query, k, ef_search) :
       last' = Last("search", <<>>, 0, o.err)
  /\ UNCHANGED <<store_, opt_, hnsw_, disk>>

\* Collection::save()
Save ==
  /\ disk' = SaveAll(disk, store_, opt_, hnsw_)
  /\ last' = Last("save", <<>>, 0, "none")
  /\ UNCHANGED <<store_, opt_, hnsw_>>

\* Collection::load() on this collection: opt_ is kept
Load ==
  LET r == LoadAll(disk, store_, opt_, hnsw_) IN
  /\ store_' = r.st
  /\ hnsw_' = r.h
  /\ last' = Last("load", <<>>, 0, r.err)
  /\ UNCHANGED <<opt_, disk>>

\* Collection::open(dir): a new Collection built from the manifest and
\* loaded, which from here on is the collection.  open returns its local c
\* by value: a build that elides the copy hands out c itself; one that does
\* not move-constructs the result from c and destroys c, and the moved
\* index still refers to c.store_.
Open ==
  LET mf == read_manifest(disk.manifest) IN
  IF mf.err # "none"
    THEN /\ last' = Last("open", <<>>, 0, mf.err)
         /\ UNCHANGED <<store_, opt_, hnsw_, disk>>
  ELSE
    LET opt == [metric |-> mf.metric, hnsw_params |-> mf.hnsw_params]
        r == LoadAll(disk, EmptyStore, opt, NoIndex)
    IN IF r.err # "none"
         THEN /\ last' = Last("open", <<>>, 0, r.err)
              /\ UNCHANGED <<store_, opt_, hnsw_, disk>>
       ELSE /\ opt_' = opt
            /\ store_' = r.st
            /\ \E elided \in BOOLEAN :
                 hnsw_' = IF r.h.present /\ ~elided
                            THEN [r.h EXCEPT !.store_ref = "stale"]
                          ELSE r.h
            /\ last' = Last("open", <<>>, 0, "none")
            /\ UNCHANGED disk

\* One caller: every operation runs from its lock to its unlock in one step.
Next ==
  /\ \/ \E id \in Ids, vec \in UpsertVecs \cup {BadVec} : Upsert(id, vec)
     \/ \E id \in Ids : Remove(id)
     \/ \E m \in Metrics : SetMetric(m)
     \/ \E p \in ParamChoices : SetHnswParams(p)
     \/ BuildIndex
     \/ \E q \in SearchQs, k \in SearchKs, ef \in SearchEfs : Search(q, k, ef)
     \/ Save
     \/ Load
     \/ Open
  /\ UNCHANGED conc
  /\ UNCHANGED more

Spec == Init /\ [][Next]_vars

-----------------------------------------------------------------------------
(* The VectorStore alone: one store of dimension Dim and any sequence of   *)
(* insert, upsert and remove on it.                                        *)

StoreMaxSlots == 3

StoreIds == {<<>>, <<"a">>, <<"b">>, <<"c">>}

StoreLast(op, id, vec, ret, err) ==
  [op |-> op, id |-> id, vec |-> vec, ret |-> ret, err |-> err]

StoreInit ==
  /\ store_ = EmptyStore
  /\ opt_ = [metric |-> "L2", hnsw_params |-> ParamsA]
  /\ hnsw_ = NoIndex
  /\ disk = EmptyDir
  /\ last = StoreLast("VectorStore", <<>>, <<>>, 0, "none")
  /\ mtx_ = Unlocked
  /\ visited_ = NewVisited
  /\ th = [t \in Threads |-> Idle]
  /\ metadata_ = <<>>
  /\ twin_ = NoIndex

\* VectorStore::insert(id, vec)
StoreInsert(id, vec) ==
  LET r == insert(store_, id, vec) IN
  /\ size(r.st) <= StoreMaxSlots
  /\ store_' = r.st
  /\ last' = StoreLast("insert", id, vec, r.ret, r.err)

\* VectorStore::upsert(id, vec)
StoreUpsert(id, vec) ==
  LET r == upsert(store_, id, vec) IN
  /\ size(r.st) <= StoreMaxSlots
  /\ store_' = r.st
  /\ last' = StoreLast("upsert", id, vec, r.ret, r.err)

\* VectorStore::remove(id)
StoreRemove(id) ==
  LET r == remove(store_, id) IN
  /\ store_' = r.st
  /\ last' = StoreLast("remove", id, <<>>, r.ret, r.err)

StoreNext ==
  /\ \/ \E id \in StoreIds, vec \in UpsertVecs \cup {BadVec} : StoreInsert(id, vec)
     \/ \E id \in StoreIds, vec \in UpsertVecs \cup {BadVec} : StoreUpsert(id, vec)
     \/ \E id \in StoreIds : StoreRemove(id)
  /\ UNCHANGED <<opt_, hnsw_, disk>>
  /\ UNCHANGED conc
  /\ UNCHANGED more

SpecStore == StoreInit /\ [][StoreNext]_vars

-----------------------------------------------------------------------------
(* Concurrent callers.  Each thread runs one Collection operation at a     *)
(* time, step by step: it takes mtx_ (shared for search, exclusive for the *)
(* seven writers), acts, and releases the lock when it returns or throws.  *)
(* A search walks search_level one heap pop and one neighbour at a time    *)
(* and marks the slots it visits in the index's one Visited buffer.        *)

MaxStamp == 4     \* no search begins once the stamp has reached this
StampWrap == 8    \* the stamp counter wraps here (at 2^32 in the source)

\* Visited: mark_ and stamp_
ensure_size(v, n) ==
  IF Len(v.mark) < n THEN [v EXCEPT !.mark = Resize(v.mark, n)] ELSE v

\* a faulty variant: on overflow the stamp restarts and the marks stay
advance_stamp_keeps_marks(v) ==
  LET st == (v.stamp + 1) % StampWrap IN
  IF st = 0 THEN [v EXCEPT !.stamp = 1] ELSE [v EXCEPT !.stamp = st]

advance_stamp(v) ==
  LET st == (v.stamp + 1) % StampWrap IN
  IF st = 0 THEN [mark |-> [i \in 1..Len(v.mark) |-> 0], stamp |-> 1]
  ELSE [v EXCEPT !.stamp = st]

visited_start(v, n) == advance_stamp(ensure_size(v, n))

visited_test(v, i) == i < Len(v.mark) /\ v.mark[i + 1] = v.stamp

visited_set(v, i) == [v EXCEPT !.mark = SetAt(v.mark, i, v.stamp)]

\* test_and_set(i): [was, v]
test_and_set(v, i) ==
  IF v.mark[i + 1] = v.stamp THEN [was |-> TRUE, v |-> v]
  ELSE [was |-> FALSE, v |-> visited_set(v, i)]

\* std::shared_lock lock(mtx_) and std::unique_lock lock(mtx_) can be taken
CanLockShared_NoLock == TRUE

CanLockShared == mtx_.writer = 0

CanLockExclusive == mtx_.writer = 0 /\ mtx_.readers = {}

\* the arguments the concurrent callers pass
ConcSearch == [query |-> <<0, 1>>, k |-> 2, ef_search |-> 2]
ConcId == <<"b">>
ConcVec == <<3, 4>>

\* thread t returns from its operation (or leaves it by an exception): the
\* lock it holds is released, and rec tells what it got
Return(t, rec) ==
  /\ th' = [th EXCEPT ![t] = Idle]
  /\ mtx_' = [writer |-> IF mtx_.writer = t THEN 0 ELSE mtx_.writer,
              readers |-> mtx_.readers \ {t}]
  /\ last' = rec

\* what a finished search reports: its result, and solo, the result the
\* same call has when it runs alone on the collection as it is
SearchReturn(t, err, res) ==
  Return(t, [op |-> "search", id |-> <<>>, ret |-> 0, err |-> err,
             thread |-> t, res |-> res, solo |-> th[t].solo])

\* Collection::search: the shared lock is taken
SearchLock(t, query, k, ef_search) ==
  /\ th[t].pc = "idle"
  /\ CanLockShared
  /\ visited_.stamp < MaxStamp
  /\ mtx_' = [mtx_ EXCEPT !.readers = @ \cup {t}]
  /\ th' = [th EXCEPT ![t] =
              [pc |-> "search", query |-> query, k |-> k, ef_search |-> ef_search,
               solo |-> CHOOSE o \in SearchOutcomes(hnsw_, store_, query, k, ef_search) : TRUE]]
  /\ UNCHANGED <<coll, last, visited_>>

\* Collection::search up to the layer loop of Hnsw::search
SearchEnter(t) ==
  /\ th[t].pc = "search"
  /\ IF Len(th[t].query) # Dim THEN SearchReturn(t, "DimMismatch", <<>>)
     ELSE IF ~hnsw_.present THEN SearchReturn(t, "IndexNotReady", <<>>)
     ELSE IF ~hnsw_.has_entry_ \/ th[t].k = 0 THEN SearchReturn(t, "none", <<>>)
     ELSE /\ th' = [th EXCEPT ![t] =
                      [pc |-> "level", query |-> th[t].query, k |-> th[t].k,
                       ef_search |-> th[t].ef_search, solo |-> th[t].solo,
                       ep |-> hnsw_.entry_point_, l |-> hnsw_.max_level_]]
          /\ UNCHANGED <<mtx_, last>>
  /\ UNCHANGED <<coll, visited_>>

\* ef of the search_level call at layer l
LevelEf(r) == IF r.l > 0 THEN 1 ELSE Max(r.ef_search, r.k)

\* search_level of thread t has returned out: greedy_descent takes the new
\* entry and the loop goes one layer down, or layer 0 is done and the
\* search returns its first k
LevelDone(t, out) ==
  LET r == th[t] IN
  IF r.l > 0
    THEN /\ th' = [th EXCEPT ![t] =
                     [pc |-> "level", query |-> r.query, k |-> r.k,
                      ef_search |-> r.ef_search, solo |-> r.solo,
                      ep |-> IF out = <<>> THEN r.ep ELSE out[1].index,
                      l |-> r.l - 1]]
         /\ UNCHANGED <<mtx_, last>>
  ELSE SearchReturn(t, "none", IF Len(out) > r.k THEN SubSeq(out, 1, r.k) ELSE out)

\* search_level from its first line to the while loop
SearchLevel(t) ==
  LET r == th[t]
      ef == LevelEf(r)
  IN
  /\ r.pc = "level"
  /\ IF ~hnsw_.has_entry_ \/ ef = 0 \/ ~is_alive(store_, r.ep)
       THEN LevelDone(t, <<>>) /\ UNCHANGED visited_
     ELSE LET entry_d == dist_to(hnsw_, store_, r.query, r.ep) IN
          /\ visited_' = visited_set(visited_start(visited_, size(store_)), r.ep)
          /\ th' = [th EXCEPT ![t] =
                      [pc |-> "pop", query |-> r.query, k |-> r.k,
                       ef_search |-> r.ef_search, solo |-> r.solo,
                       ep |-> r.ep, l |-> r.l,
                       candidates |-> <<Cand(r.ep, entry_d)>>,
                       results |-> <<Cand(r.ep, entry_d)>>]]
          /\ UNCHANGED <<mtx_, last>>
  /\ UNCHANGED coll

\* one round of the while loop, up to the for loop over the neighbours
SearchPop(t) ==
  LET r == th[t] IN
  /\ r.pc = "pop"
  /\ IF r.candidates = <<>> THEN LevelDone(t, Drain(r.results))
     ELSE LET c == r.candidates[1] IN
          IF c.dist > r.results[1].dist THEN LevelDone(t, Drain(r.results))
          ELSE IF node_level(hnsw_, c.index) < r.l
            THEN /\ th' = [th EXCEPT ![t].candidates = Tail(r.candidates)]
                 /\ UNCHANGED <<mtx_, last>>
          ELSE /\ th' = [th EXCEPT ![t] =
                           [pc |-> "nbr", query |-> r.query, k |-> r.k,
                            ef_search |-> r.ef_search, solo |-> r.solo,
                            ep |-> r.ep, l |-> r.l,
                            candidates |-> Tail(r.candidates),
                            results |-> r.results,
                            nbrs |-> hnsw_.graph_[c.index + 1][r.l + 1],
                            j |-> 1]]
               /\ UNCHANGED <<mtx_, last>>
  /\ UNCHANGED <<coll, visited_>>

\* one round of the for loop over the neighbours
SearchNbr(t) ==
  LET r == th[t] IN
  /\ r.pc = "nbr"
  /\ IF r.j > Len(r.nbrs)
       THEN /\ th' = [th EXCEPT ![t] =
                        [pc |-> "pop", query |-> r.query, k |-> r.k,
                         ef_search |-> r.ef_search, solo |-> r.solo,
                         ep |-> r.ep, l |-> r.l,
                         candidates |-> r.candidates, results |-> r.results]]
            /\ UNCHANGED visited_
     ELSE LET nb == r.nbrs[r.j] IN
          IF ~is_alive(store_, nb)
            THEN /\ th' = [th EXCEPT ![t].j = r.j + 1]
                 /\ UNCHANGED visited_
          ELSE LET ts == test_and_set(visited_, nb) IN
               /\ visited_' = ts.v
               /\ IF ts.was THEN th' = [th EXCEPT ![t].j = r.j + 1]
                  ELSE LET cr == Offer([candidates |-> r.candidates,
                                        results |-> r.results],
                                       LevelEf(r), nb,
                                       dist_to(hnsw_, store_, r.query, nb))
                       IN th' = [th EXCEPT ![t].j = r.j + 1,
                                           ![t].candidates = cr.candidates,
                                           ![t].results = cr.results]
  /\ UNCHANGED <<coll, mtx_, last>>

\* the calls of the writers
ConcWriterCalls ==
  {[pc |-> "upsert", id |-> ConcId, vec |-> ConcVec],
   [pc |-> "upsert", id |-> ConcId, vec |-> BadVec],
   [pc |-> "remove", id |-> ConcId],
   [pc |-> "set_metric", m |-> "L2"],
   [pc |-> "set_hnsw_params", p |-> ParamsA],
   [pc |-> "build_index"],
   [pc |-> "save"],
   [pc |-> "load"]}

\* a writer takes the exclusive lock
WriterLock(t, call) ==
  /\ th[t].pc = "idle"
  /\ CanLockExclusive
  /\ mtx_' = [mtx_ EXCEPT !.writer = t]
  /\ th' = [th EXCEPT ![t] = call]
  /\ UNCHANGED <<coll, last, visited_>>

\* the Visited buffer lives in the index: it goes when the index goes
DropIndex ==
  /\ hnsw_' = NoIndex
  /\ visited_' = NewVisited

\* Collection::upsert: the length check and store_.upsert
UpsertStore(t) ==
  LET c == th[t] IN
  /\ c.pc = "upsert"
  /\ IF Len(c.vec) # Dim
       THEN Return(t, Last("upsert", c.id, -1, "DimMismatch")) /\ UNCHANGED store_
     ELSE LET r == upsert(store_, c.id, c.vec) IN
          IF r.err # "none"
            THEN Return(t, Last("upsert", c.id, -1, r.err)) /\ UNCHANGED store_
          ELSE /\ store_' = r.st
               /\ th' = [th EXCEPT ![t] = [pc |-> "upsert_reset", id |-> c.id, idx |-> r.ret]]
               /\ UNCHANGED <<mtx_, last>>
  /\ UNCHANGED <<opt_, hnsw_, disk, visited_>>

\* Collection::upsert: the reset of the index, and the return
UpsertReset(t) ==
  /\ th[t].pc = "upsert_reset"
  /\ DropIndex
  /\ Return(t, Last("upsert", th[t].id, th[t].idx, "none"))
  /\ UNCHANGED <<store_, opt_, disk>>

\* Collection::remove: store_.remove
RemoveStore(t) ==
  LET r == remove(store_, th[t].id) IN
  /\ th[t].pc = "remove"
  /\ store_' = r.st
  /\ th' = [th EXCEPT ![t] = [pc |-> "remove_reset", id |-> th[t].id, ok |-> r.ret]]
  /\ UNCHANGED <<opt_, hnsw_, disk, mtx_, last, visited_>>

\* Collection::remove: the reset of the index if ok, and the return
RemoveReset(t) ==
  /\ th[t].pc = "remove_reset"
  /\ IF th[t].ok = 1 /\ hnsw_.present THEN DropIndex
     ELSE UNCHANGED <<hnsw_, visited_>>
  /\ Return(t, Last("remove", th[t].id, th[t].ok, "none"))
  /\ UNCHANGED <<store_, opt_, disk>>

\* Collection::set_metric and set_hnsw_params: the assignment to opt_
SetOption(t) ==
  /\ th[t].pc \in {"set_metric", "set_hnsw_params"}
  /\ opt_' = IF th[t].pc = "set_metric" THEN [opt_ EXCEPT !.metric = th[t].m]
             ELSE [opt_ EXCEPT !.hnsw_params = th[t].p]
  /\ th' = [th EXCEPT ![t] = [pc |-> "set_reset", op |-> th[t].pc]]
  /\ UNCHANGED <<store_, hnsw_, disk, mtx_, last, visited_>>

\* Collection::set_metric and set_hnsw_params: the reset, and the return
SetReset(t) ==
  /\ th[t].pc = "set_reset"
  /\ DropIndex
  /\ Return(t, Last(th[t].op, <<>>, 0, "none"))
  /\ UNCHANGED <<store_, opt_, disk>>

\* Collection::build_index: the new, empty Hnsw
BuildNew(t) ==
  /\ th[t].pc = "build_index"
  /\ hnsw_' = NewHnsw(opt_.metric, opt_.hnsw_params)
  /\ visited_' = NewVisited
  /\ th' = [th EXCEPT ![t] = [pc |-> "build_loop", i |-> 0]]
  /\ UNCHANGED <<store_, opt_, disk, mtx_, last>>

\* Collection::build_index: one round of the loop over the slots.  The
\* inserting thread is the one user of the Visited buffer, which is left
\* as it is here: no later search reads what an insert marked.
BuildStep(t) ==
  LET i == th[t].i IN
  /\ th[t].pc = "build_loop"
  /\ IF i < size(store_)
       THEN /\ hnsw_' = IF is_alive(store_, i) THEN hnsw_insert(hnsw_, store_, i)
                        ELSE hnsw_
            /\ th' = [th EXCEPT ![t].i = i + 1]
            /\ UNCHANGED <<mtx_, last>>
     ELSE /\ Return(t, Last("build_index", <<>>, 0, "none"))
          /\ UNCHANGED hnsw_
  /\ UNCHANGED <<store_, opt_, disk, visited_>>

\* Collection::save: write_manifest
SaveManifest(t) ==
  /\ th[t].pc = "save"
  /\ disk' = [disk EXCEPT !.manifest =
                write_manifest([version |-> 1, dim |-> Dim, metric |-> opt_.metric,
                                hnsw_params |-> opt_.hnsw_params])]
  /\ th' = [th EXCEPT ![t] = [pc |-> "save_store"]]
  /\ UNCHANGED <<store_, opt_, hnsw_, mtx_, last, visited_>>

\* Collection::save: save_store
SaveStore(t) ==
  /\ th[t].pc = "save_store"
  /\ disk' = save_store(disk, store_)
  /\ th' = [th EXCEPT ![t] = [pc |-> "save_hnsw"]]
  /\ UNCHANGED <<store_, opt_, hnsw_, mtx_, last, visited_>>

\* Collection::save: save_hnsw, or the removal of the graph file
SaveGraph(t) ==
  /\ th[t].pc = "save_hnsw"
  /\ disk' = IF hnsw_.present
               THEN [disk EXCEPT !.hnsw = save_hnsw(hnsw_, StoreSeen(hnsw_, store_), store_)]
             ELSE [disk EXCEPT !.hnsw = NoFile]
  /\ Return(t, Last("save", <<>>, 0, "none"))
  /\ UNCHANGED <<store_, opt_, hnsw_, visited_>>

\* Collection::load: load_store
LoadStore(t) ==
  LET r == load_store(disk, store_) IN
  /\ th[t].pc = "load"
  /\ IF r.err # "none"
       THEN Return(t, Last("load", <<>>, 0, r.err)) /\ UNCHANGED store_
     ELSE /\ store_' = r.st
          /\ th' = [th EXCEPT ![t] = [pc |-> "load_new"]]
          /\ UNCHANGED <<mtx_, last>>
  /\ UNCHANGED <<opt_, hnsw_, disk, visited_>>

\* Collection::load: the new Hnsw if there is a graph file, else the reset
LoadNew(t) ==
  /\ th[t].pc = "load_new"
  /\ IF disk.hnsw.exists
       THEN /\ hnsw_' = NewHnsw(opt_.metric, opt_.hnsw_params)
            /\ visited_' = NewVisited
            /\ th' = [th EXCEPT ![t] = [pc |-> "load_hnsw"]]
            /\ UNCHANGED <<mtx_, last>>
     ELSE /\ DropIndex
          /\ Return(t, Last("load", <<>>, 0, "none"))
  /\ UNCHANGED <<store_, opt_, disk>>

\* Collection::load: load_hnsw into the new Hnsw
LoadGraph(t) ==
  LET g == load_hnsw(disk.hnsw, hnsw_, store_) IN
  /\ th[t].pc = "load_hnsw"
  /\ hnsw_' = g.h
  /\ Return(t, Last("load", <<>>, 0, g.err))
  /\ UNCHANGED <<store_, opt_, disk, visited_>>

\* the collection the threads share: two vectors upserted, the index built,
\* the collection saved
ConcStore ==
  upsert(upsert(EmptyStore, <<"a">>, <<1, 0>>).st, ConcId, ConcVec).st

ConcOpt == [metric |-> "L2", hnsw_params |-> ParamsA]

ConcInit ==
  /\ store_ = ConcStore
  /\ opt_ = ConcOpt
  /\ hnsw_ = BuildLoop(NewHnsw(ConcOpt.metric, ConcOpt.hnsw_params), ConcStore, 0)
  /\ disk = SaveAll(EmptyDir, store_, opt_, hnsw_)
  /\ last = Last("save", <<>>, 0, "none")
  /\ mtx_ = Unlocked
  /\ visited_ = NewVisited
  /\ th = [t \in Threads |-> Idle]
  /\ metadata_ = <<>>
  /\ twin_ = NoIndex

ConcNext ==
  /\ \E t \in Threads :
        \/ SearchLock(t, ConcSearch.query, ConcSearch.k, ConcSearch.ef_search)
        \/ SearchEnter(t)
        \/ SearchLevel(t)
        \/ SearchPop(t)
        \/ SearchNbr(t)
        \/ \E call \in ConcWriterCalls : WriterLock(t, call)
        \/ UpsertStore(t)
        \/ UpsertReset(t)
        \/ RemoveStore(t)
        \/ RemoveReset(t)
        \/ SetOption(t)
        \/ SetReset(t)
        \/ BuildNew(t)
        \/ BuildStep(t)
        \/ SaveManifest(t)
        \/ SaveStore(t)
        \/ SaveGraph(t)
        \/ LoadStore(t)
        \/ LoadNew(t)
        \/ LoadGraph(t)
  /\ UNCHANGED more

SpecConc == ConcInit /\ [][ConcNext]_vars

-----------------------------------------------------------------------------
(* Properties of the VectorStore, under SpecStore *)

TombstoneReads(s, id, slot) ==
  /\ ~contains(s, id)
  /\ get_ptr_id(s, id) = NullPtr
  /\ get_ptr(s, slot) = NullPtr
  /\ ~is_alive(s, slot)
  /\ id_at(s, slot) = id

\* C7: a remove(id) that returns true leaves size() as it was and id's slot
\* a tombstone (contains false, both get_ptr null, is_alive false, id_at
\* still id); every tombstone stays one across every step that is not a
\* successful insert or upsert of its id.
C7_Tombstone ==
  [][/\ (last'.op = "remove" /\ last'.ret = 1) =>
          /\ last'.id \in DOMAIN store_.id_to_index
          /\ contains(store_, last'.id)
          /\ TombstoneReads(store_', last'.id, store_.id_to_index[last'.id])
          /\ size(store_') = size(store_)
     /\ \A id \in DOMAIN store_.id_to_index :
          ( /\ TombstoneReads(store_, id, store_.id_to_index[id])
            /\ ~(last'.op \in {"insert", "upsert"} /\ last'.id = id
                 /\ last'.err = "none") )
          => TombstoneReads(store_', id, store_.id_to_index[id])
    ]_vars

\* an insert of another id has succeeded while a tombstone was there
C7_Witness ==
  /\ last.op = "insert" /\ last.err = "none"
  /\ \E i \in 0..(size(store_) - 1) :
       /\ id_at(store_, i) # last.id
       /\ TombstoneReads(store_, id_at(store_, i), i)

\* the slots of s other than slot, as a caller reads them
OtherSlots(s, slot) ==
  [i \in (0..(size(s) - 1)) \ {slot} |->
     <<id_at(s, i), is_alive(s, i), ptr_at_(s, i)>>]

-----------------------------------------------------------------------------
(* Properties of the Collection, under Spec *)

\* what every unfiltered search with a query of the right length returns
SearchAll(h, s) ==
  [a \in Vecs \X SearchKs \X SearchEfs |->
     SearchOutcomes(h, s, a[1], a[2], a[3])]

AliveSlots(s) == {i \in 0..(size(s) - 1) : is_alive(s, i)}

\* the step is a successful upsert, remove, set_metric or set_hnsw_params
Mutation ==
  /\ last'.err = "none"
  /\ \/ last'.op \in {"upsert", "set_metric", "set_hnsw_params"}
     \/ last'.op = "remove" /\ last'.ret = 1

C8_RemoveAbsent ==
  [][(last'.op = "remove" /\ ~contains(store_, last'.id)) =>
       /\ last'.ret = 0 /\ last'.err = "none"
       /\ store_' = store_
       /\ hnsw_' = hnsw_
       /\ SearchAll(hnsw_', store_') = SearchAll(hnsw_, store_)
    ]_vars

\* a remove of a tombstoned id has returned false on an indexed collection
C8_Witness ==
  /\ last.op = "remove" /\ last.ret = 0
  /\ has_index(hnsw_)
  /\ last.id \in DOMAIN store_.id_to_index
  /\ ~is_alive(store_, store_.id_to_index[last.id])
  /\ AliveSlots(store_) # {}

\* the step is an open(dir) of the directory this collection was just saved
\* to
SavedThenOpened == last.op = "save" /\ last'.op = "open"

\* C3: save() of a collection with a built index, then open(dir): open
\* succeeds, the opened collection has an index, the same size, alive bits
\* and ids, and every search on it returns what it returned before the save.
C3_RoundTrip ==
  [][(SavedThenOpened /\ has_index(hnsw_) /\ hnsw_.store_ref = "own") =>
       /\ last'.err = "none"
       /\ has_index(hnsw_')
       /\ size(store_') = size(store_)
       /\ store_'.alive = store_.alive
       /\ store_'.ids = store_.ids
       /\ SearchAll(hnsw_', store_') = SearchAll(hnsw_, store_)
    ]_vars

\* C6: the store is well-formed: data holds size()*dim elements, alive and
\* ids hold size() elements, every slot's id maps back to that slot, and no
\* two slots carry the same id.
C6_WellFormed ==
  /\ Len(store_.data) = size(store_) * store_.dim
  /\ Len(store_.alive) = size(store_)
  /\ Len(store_.ids) = size(store_)
  /\ \A i \in 0..(size(store_) - 1) :
       /\ id_at(store_, i) \in DOMAIN store_.id_to_index
       /\ store_.id_to_index[id_at(store_, i)] = i
  /\ \A i, j \in 0..(size(store_) - 1) :
       id_at(store_, i) = id_at(store_, j) => i = j

\* C10: an id removed before save() is, after open(dir), still a dead slot
\* that carries the id, and an upsert of the id returns that slot.
C10_RevivalSurvives ==
  [][SavedThenOpened =>
       /\ last'.err = "none"
       /\ \A i \in 0..(size(store_) - 1) :
            (~is_alive(store_, i) /\ id_at(store_, i) # <<>>) =>
              /\ ~is_alive(store_', i)
              /\ id_at(store_', i) = id_at(store_, i)
              /\ \A vec \in UpsertVecs :
                   upsert(store_', id_at(store_, i), vec).ret = i
    ]_vars

-----------------------------------------------------------------------------
(* Properties of concurrent callers, under SpecConc *)

\* C4: every search that runs while other searches run returns exactly what
\* it returns when it runs alone on the same collection state.
C4_SearchAlone ==
  last.op = "search" => (last.err = last.solo.err /\ last.res = last.solo.res)

SearchPcs == {"search", "level", "pop", "nbr"}

\* thread t is inside a search, inside a writer
Searching(t) == th[t].pc \in SearchPcs
Writing(t) == th[t].pc \notin SearchPcs \cup {"idle"}

\* C5: a thread inside a writer holds the exclusive lock, alone, from its
\* first effect to its last; a thread inside a search holds the shared lock
\* and no writer holds the lock; so while a search runs no thread is inside
\* a writer, and store, options, index and files stay, from the search's
\* lock to its return, exactly as they were: it sees all of an earlier
\* writer's effect and nothing of a later one's.
C5_WritersExclusive ==
  [][/\ \A t \in Threads :
          /\ Writing(t)' =>
               /\ mtx_'.writer = t /\ mtx_'.readers = {}
               /\ \A u \in Threads \ {t} : th'[u].pc = "idle"
          /\ Searching(t)' => (t \in mtx_'.readers /\ mtx_'.writer = 0)
     /\ (\E t \in Threads : Searching(t)) => coll' = coll
     /\ \A t \in Threads :
          (Writing(t) /\ coll' # coll) => (mtx_.writer = t /\ mtx_.readers = {})
    ]_vars

\* a writer is in the middle of its effect (a partly built index) while the
\* other thread waits, and a search has completed before
C5_Witness ==
  /\ \E t \in Threads : th[t].pc = "build_loop" /\ th[t].i = 1
  /\ hnsw_.present
  /\ last.op = "search"

-----------------------------------------------------------------------------
(* The graph file across save and open, under Spec *)

\* C11: after every completed save() the graph file exists exactly if the
\* collection had an index at that save; an open(dir) that follows the save
\* succeeds, has an index exactly if the saved collection had one, and the
\* graph it attaches is the graph of that save.
C11_GraphFileTracksIndex ==
  [][/\ last'.op = "save" =>
          (disk'.hnsw.exists <=> has_index(hnsw_))
     /\ SavedThenOpened =>
          /\ last'.err = "none"
          /\ has_index(hnsw_') <=> has_index(hnsw_)
          /\ has_index(hnsw_) =>
               export_graph(hnsw_', store_') = export_graph(hnsw_, store_)
    ]_vars

\* the part of C11 that the files decide: it holds in every build
C11_FileIffIndex ==
  [][/\ last'.op = "save" =>
          (disk'.hnsw.exists <=> has_index(hnsw_))
     /\ (SavedThenOpened /\ last'.err = "none") =>
          (has_index(hnsw_') <=> has_index(hnsw_))
     /\ (SavedThenOpened /\ has_index(hnsw_) /\ hnsw_.store_ref = "own") =>
          /\ last'.err = "none"
          /\ export_graph(hnsw_', store_') = export_graph(hnsw_, store_)
    ]_vars

-----------------------------------------------------------------------------
(* Exact scans: the filtered overload of Collection::search and            *)
(* Bruteforce::search.  Both keep the best k entries in a bounded max-heap *)
(* and sort them at the end.  Which of several entries at the same         *)
(* distance the heap evicts, and in what order std::sort leaves them, is   *)
(* the library's choice; a scan therefore has a set of possible results.   *)

ScanMaxSlots == 3   \* a collection under SpecScan appends no slot beyond this

ScanIds == {<<"a">>, <<"b">>, <<"c">>}
ScanKs == {0, 1, 2}
ScanQs == {<<1, 0>>}

\* Metadata: a map from strings to strings; Metadata{} is the empty map
NoMeta == <<>>
Metas == {NoMeta, MapPut(NoMeta, "cluster", "1")}

\* MetadataFilter values: one with an empty key, one that the metadata
\* above can match, one with the same key and another value
Filters ==
  {[key |-> "", value |-> "1"],
   [key |-> "cluster", value |-> "1"],
   [key |-> "cluster", value |-> "2"]}

\* VectorStore::metadata_at(index)
metadata_at(md, index) == IF index < Len(md) THEN md[index + 1] ELSE NoMeta

\* VectorStore::upsert(id, vec, meta): upsert(id, vec), and the slot's
\* metadata becomes meta; [st, md, ret, err]
upsert_meta(s, md, id, vec, meta) ==
  LET r == upsert(s, id, vec) IN
  IF r.err # "none" THEN [st |-> s, md |-> md, ret |-> r.ret, err |-> r.err]
  ELSE [st |-> r.st,
        md |-> IF r.ret < Len(md) THEN SetAt(md, r.ret, meta) ELSE Append(md, meta),
        ret |-> r.ret, err |-> "none"]

\* MetadataFilter::empty
filter_empty(filter) == filter.key = ""

\* a faulty variant: the key alone decides
metadata_matches_key_only(meta, filter) ==
  IF filter_empty(filter) THEN TRUE
  ELSE filter.key \in DOMAIN meta

metadata_matches(meta, filter) ==
  IF filter_empty(filter) THEN TRUE
  ELSE filter.key \in DOMAIN meta /\ meta[filter.key] = filter.value

\* the entries a max-heap on distance can have at its front
Worst(heap) == {e \in heap : \A f \in heap : f.distance <= e.distance}

\* The heaps that heap can become when slot i at distance d is offered in
\* the filtered scan with k >= 1: push_back (and make_heap at size k) while
\* there is room, else pop_heap / back() = / push_heap if d is less than
\* the front's distance.
HeapOffer(heap, k, i, d) ==
  LET e == [index |-> i, distance |-> d] IN
  IF Cardinality(heap) < k THEN {heap \cup {e}}
  ELSE IF \E w \in Worst(heap) : d < w.distance
    THEN {(heap \ {w}) \cup {e} : w \in Worst(heap)}
  ELSE {heap}

\* std::sort by distance: the orders it can leave the entries of heap in
SortedSeqs(heap) ==
  LET n == Cardinality(heap) IN
  {r \in [1..n -> heap] :
     /\ \A a, b \in 1..n : a # b => r[a] # r[b]
     /\ \A a \in 1..n : a < n => r[a].distance <= r[a + 1].distance}

\* The scan loop of the filtered search from slot i on.  acc.heaps are the
\* heaps the loop can hold; acc.ub tells that a slot passed the filter with
\* k = 0: heap.size() < k is false, and the loop reads heap.front() of an
\* empty vector.
RECURSIVE FilterLoop(_, _, _, _, _, _)
FilterLoop(s, md, metric, call, i, acc) ==
  IF i >= size(s) THEN acc
  ELSE IF ~is_alive(s, i) THEN FilterLoop(s, md, metric, call, i + 1, acc)
  ELSE IF ~metadata_matches(metadata_at(md, i), call.filter)
    THEN FilterLoop(s, md, metric, call, i + 1, acc)
  ELSE IF get_ptr(s, i) = NullPtr THEN FilterLoop(s, md, metric, call, i + 1, acc)
  ELSE LET d == distance(metric, call.query, get_ptr(s, i)) IN
       IF call.k = 0
         THEN FilterLoop(s, md, metric, call, i + 1, [acc EXCEPT !.ub = TRUE])
       ELSE FilterLoop(s, md, metric, call, i + 1,
              [acc EXCEPT !.heaps = UNION {HeapOffer(h, call.k, i, d) : h \in @}])

\* What Collection::search(query, k, ef_search, filter) can return.  Once
\* front() of the empty vector has been read the behaviour is undefined:
\* the garbage read is not greater than d and the scan goes on, or it is
\* and back() = {i, d} writes before the buffer.
FilterOutcomes(s, md, opt, h, query, k, ef_search, filter) ==
  IF Len(query) # Dim THEN {[err |-> "DimMismatch", res |-> <<>>]}
  ELSE IF filter_empty(filter) THEN SearchOutcomes(h, s, query, k, ef_search)
  ELSE LET acc == FilterLoop(s, md, opt.metric,
                             [query |-> query, k |-> k, filter |-> filter], 0,
                             [heaps |-> {{}}, ub |-> FALSE])
       IN {[err |-> "none", res |-> r] : r \in UNION {SortedSeqs(hp) : hp \in acc.heaps}}
          \cup (IF acc.ub THEN {[err |-> "crash", res |-> Crash]} ELSE {})

\* a faulty variant of the priority_queue round: no bound on the size
QueueOfferUnbounded(heap, k, i, d) == {heap \cup {[index |-> i, distance |-> d]}}

\* Bruteforce::search, one round of its priority_queue: push while there is
\* room, else pop and push if d is less than top()'s distance
QueueOffer(heap, k, i, d) ==
  LET e == [index |-> i, distance |-> d] IN
  IF Cardinality(heap) < k THEN {heap \cup {e}}
  ELSE IF \E w \in Worst(heap) : d < w.distance
    THEN {(heap \ {w}) \cup {e} : w \in Worst(heap)}
  ELSE {heap}

\* the loop of Bruteforce::search from slot i on: the heaps it can hold
RECURSIVE BfLoop(_, _, _, _, _, _)
BfLoop(s, metric, query, k, i, heaps) ==
  IF i >= size(s) THEN heaps
  ELSE IF ~is_alive(s, i) THEN BfLoop(s, metric, query, k, i + 1, heaps)
  ELSE IF get_ptr(s, i) = NullPtr THEN BfLoop(s, metric, query, k, i + 1, heaps)
  ELSE BfLoop(s, metric, query, k, i + 1,
         UNION {QueueOffer(h, k, i, distance(metric, query, get_ptr(s, i))) :
                  h \in heaps})

\* What Bruteforce(store, metric).search(query, k) can return
BfOutcomes(s, metric, query, k) ==
  IF Len(query) # s.dim THEN {[err |-> "DimMismatch", res |-> <<>>]}
  ELSE IF k = 0 THEN {[err |-> "none", res |-> <<>>]}
  ELSE {[err |-> "none", res |-> r] :
          r \in UNION {SortedSeqs(h) : h \in BfLoop(s, metric, query, k, 0, {{}})}}

ScanLast(op, query, k, filter, o) ==
  [op |-> op, query |-> query, k |-> k, filter |-> filter,
   err |-> o.err, res |-> o.res]

ScanInit ==
  /\ opt_ = [metric |-> "L2", hnsw_params |-> ParamsA]
  /\ store_ = EmptyStore
  /\ metadata_ = <<>>
  /\ hnsw_ = NoIndex
  /\ disk = EmptyDir
  /\ last = Last("Collection", <<>>, 0, "none")
  /\ mtx_ = Unlocked
  /\ visited_ = NewVisited
  /\ th = [t \in Threads |-> Idle]
  /\ twin_ = NoIndex

\* Collection::upsert(id, vec, meta)
ScanUpsert(id, vec, meta) ==
  /\ id \in DOMAIN store_.id_to_index \/ size(store_) < ScanMaxSlots
  /\ IF Len(vec) # Dim
       THEN /\ last' = Last("upsert", id, -1, "DimMismatch")
            /\ UNCHANGED <<store_, metadata_, hnsw_>>
     ELSE LET r == upsert_meta(store_, metadata_, id, vec, meta) IN
          IF r.err # "none"
            THEN /\ last' = Last("upsert", id, -1, r.err)
                 /\ UNCHANGED <<store_, metadata_, hnsw_>>
          ELSE /\ store_' = r.st
               /\ metadata_' = r.md
               /\ hnsw_' = NoIndex
               /\ last' = Last("upsert", id, r.ret, "none")
  /\ UNCHANGED <<opt_, disk>>

\* Collection::remove(id)
ScanRemove(id) == Remove(id) /\ UNCHANGED metadata_

\* Collection::build_index()
ScanBuildIndex == BuildIndex /\ UNCHANGED metadata_

\* Collection::search(query, k, ef_search)
ScanSearch(query, k, ef_search) ==
  /\ \E o \in SearchOutcomes(hnsw_, store_, query, k, ef_search) :
       last' = ScanLast("search", query, k, "none", o)
  /\ UNCHANGED <<coll, metadata_>>

\* Collection::search(query, k, ef_search, filter)
ScanSearchFilter(query, k, ef_search, filter) ==
  /\ \E o \in FilterOutcomes(store_, metadata_, opt_, hnsw_, query, k, ef_search, filter) :
       last' = ScanLast("search_filter", query, k, filter, o)
  /\ UNCHANGED <<coll, metadata_>>

\* Bruteforce(store_, metric).search(query, k)
BfSearch(query, k) ==
  /\ \E o \in BfOutcomes(store_, opt_.metric, query, k) :
       last' = ScanLast("bf_search", query, k, "none", o)
  /\ UNCHANGED <<coll, metadata_>>

ScanNext ==
  /\ \/ \E id \in ScanIds, vec \in UpsertVecs, meta \in Metas :
          ScanUpsert(id, vec, meta)
     \/ \E id \in ScanIds : ScanRemove(id)
     \/ ScanBuildIndex
     \/ \E q \in ScanQs : ScanSearch(q, 2, 3)
     \/ \E q \in ScanQs, k \in ScanKs, f \in Filters : ScanSearchFilter(q, k, 3, f)
  /\ UNCHANGED conc
  /\ UNCHANGED twin_

SpecScan == ScanInit /\ [][ScanNext]_vars

\* A VectorStore under insert, upsert and remove, and a Bruteforce over it
BfNext ==
  \/ StoreNext
  \/ /\ \E q \in ScanQs \cup {BadVec}, k \in ScanKs : BfSearch(q, k)
     /\ UNCHANGED conc
     /\ UNCHANGED twin_

SpecBf == StoreInit /\ [][BfNext]_vars

-----------------------------------------------------------------------------
(* Properties of the filtered search, under SpecScan *)

\* the last operation was a search through the filtered overload with a
\* filter that is not empty
Filtered == last.op = "search_filter" /\ last.filter.key # ""

\* the last operation was a search with no filter, or with an empty one
Unfiltered ==
  \/ last.op = "search"
  \/ last.op = "search_filter" /\ last.filter.key = ""

\* C12: a search with no filter, or with a filter whose key is empty, on a
\* collection without an index fails with IndexNotReady and returns
\* nothing; a search with a non-empty filter succeeds in every collection
\* state, with or without an index.
C12_FilterNeedsNoIndex ==
  /\ (Unfiltered /\ ~has_index(hnsw_)) =>
       (last.err = "IndexNotReady" /\ last.res = <<>>)
  /\ Filtered => last.err = "none"

\* the same for every k but 0
C12_IndexNotRequired ==
  /\ (Unfiltered /\ ~has_index(hnsw_)) =>
       (last.err = "IndexNotReady" /\ last.res = <<>>)
  /\ Filtered => last.err # "IndexNotReady"
  /\ (Filtered /\ last.k >= 1) => last.err = "none"

\* the alive slots of store s whose metadata in md maps filter.key to
\* filter.value
Matching(s, md, filter) ==
  {i \in AliveSlots(s) :
     /\ i < Len(md)
     /\ filter.key \in DOMAIN md[i + 1]
     /\ md[i + 1][filter.key] = filter.value}

\* the slots a result list names
Returned(res) == {res[j].index : j \in 1..Len(res)}

\* C13: a filtered search with k >= 1 returns min(k, number of matching
\* alive slots) results; every returned slot is alive and matches the
\* filter and carries its distance to the query; no slot appears twice; the
\* list is in non-decreasing order of distance; and no matching alive slot
\* that was left out is strictly closer than a returned one.
C13_FilteredExactScan ==
  (Filtered /\ last.k >= 1) =>
    LET res == last.res
        match == Matching(store_, metadata_, last.filter)
        d(i) == distance(opt_.metric, last.query, ptr_at_(store_, i))
    IN /\ last.err = "none"
       /\ Len(res) = Min(last.k, Cardinality(match))
       /\ Returned(res) \subseteq match
       /\ \A j \in 1..Len(res) : res[j].distance = d(res[j].index)
       /\ \A a, b \in 1..Len(res) : a # b => res[a].index # res[b].index
       /\ \A a \in 1..Len(res) : a < Len(res) => res[a].distance <= res[a + 1].distance
       /\ \A i \in match \ Returned(res) :
            \A j \in 1..Len(res) : ~(d(i) < res[j].distance)

\* a filtered search with k = 1 has returned the closer of two matching
\* slots, the one the scan met second, and has passed over an alive slot
\* that does not match
C13_Witness ==
  /\ Filtered /\ last.k = 1 /\ last.err = "none"
  /\ Len(last.res) = 1
  /\ last.res[1].index = 2
  /\ Matching(store_, metadata_, last.filter) = {0, 2}
  /\ AliveSlots(store_) = {0, 1, 2}
  /\ distance(opt_.metric, last.query, ptr_at_(store_, 0)) > last.res[1].distance

\* C14: a filtered search with k = 0 returns an empty list and no error,
\* whatever the store holds and whatever matches the filter.
C14_ZeroKEmpty ==
  (Filtered /\ last.k = 0) => (last.err = "none" /\ last.res = <<>>)

-----------------------------------------------------------------------------
(* Properties of Bruteforce::search, under SpecBf *)

\* C15: brute-force search(q, k) returns min(k, number of alive slots)
\* results: alive slots only, each once and with its distance to q, in
\* non-decreasing order of distance, and every alive slot left out is at
\* least as far from q as every returned one; so with k >= the alive
\* count the result names every alive slot exactly once, and with k = 0 it
\* is empty.
C15_BruteforceTopK ==
  (last.op = "bf_search" /\ Len(last.query) = Dim) =>
    LET res == last.res
        alive == AliveSlots(store_)
        d(i) == distance(opt_.metric, last.query, ptr_at_(store_, i))
    IN /\ last.err = "none"
       /\ Len(res) = Min(last.k, Cardinality(alive))
       /\ Returned(res) \subseteq alive
       /\ \A j \in 1..Len(res) : res[j].distance = d(res[j].index)
       /\ \A a, b \in 1..Len(res) : a # b => res[a].index # res[b].index
       /\ \A a \in 1..Len(res) : a < Len(res) => res[a].distance <= res[a + 1].distance
       /\ \A i \in alive \ Returned(res) :
            \A j \in 1..Len(res) : d(i) >= res[j].distance
       /\ last.k >= Cardinality(alive) => Returned(res) = alive
       /\ last.k = 0 => res = <<>>

\* a brute-force search with k = 2 over three alive slots has left out the
\* farthest, which the scan met first
C15_Witness ==
  /\ last.op = "bf_search" /\ last.k = 2 /\ last.err = "none"
  /\ AliveSlots(store_) = {0, 1, 2}
  /\ Returned(last.res) = {1, 2}
  /\ distance(opt_.metric, last.query, ptr_at_(store_, 0)) > last.res[2].distance

-----------------------------------------------------------------------------
(* The index alone: two Hnsw objects over one VectorStore, made with the   *)
(* same metric and parameters.  hnsw_ takes its inserts in any order, each *)
(* alive slot once; twin_ takes the same inserts in the same order, any    *)
(* number of steps behind.                                                 *)

HnswNodes == 4      \* the slots of the store under SpecHnsw

HnswVecs == {<<1, 0>>, <<0, 1>>, <<3, 4>>}

\* seed 5 draws the levels 1, 1, 0, 1 for the first four inserts
HnswParams ==
  {[M |-> 1, M0 |-> 2, ef_construction |-> 3, use_diversity |-> dv,
    seed |-> 5, level_mult |-> 1] : dv \in BOOLEAN}

\* a store of HnswNodes alive slots holding the vectors vs
StoreOf(vs) ==
  [dim |-> Dim,
   data |-> [j \in 1..(Len(vs) * Dim) |-> vs[((j - 1) \div Dim) + 1][((j - 1) % Dim) + 1]],
   alive |-> [i \in 1..Len(vs) |-> 1],
   ids |-> [i \in 1..Len(vs) |-> <<"n", i>>],
   id_to_index |-> [id \in {<<"n", i>> : i \in 1..Len(vs)} |-> id[2] - 1]]

\* order: the slots inserted into hnsw_, in the order of their insertion;
\* twin: how many of them twin_ has taken
HnswLast(op, order, twin) == [op |-> op, order |-> order, twin |-> twin]

HnswInit ==
  /\ store_ \in {StoreOf(vs) : vs \in [1..HnswNodes -> HnswVecs]}
  /\ opt_ \in [metric : {"L2"}, hnsw_params : HnswParams]
  /\ hnsw_ = NewHnsw(opt_.metric, opt_.hnsw_params)
  /\ twin_ = NewHnsw(opt_.metric, opt_.hnsw_params)
  /\ last = HnswLast("Hnsw", <<>>, 0)
  /\ metadata_ = <<>>
  /\ disk = EmptyDir
  /\ mtx_ = Unlocked
  /\ visited_ = NewVisited
  /\ th = [t \in Threads |-> Idle]

\* hnsw_->insert(index)
HnswInsert(index) ==
  /\ ~InSeq(index, last.order)
  /\ hnsw_' = hnsw_insert(hnsw_, store_, index)
  /\ last' = HnswLast("insert", Append(last.order, index), last.twin)
  /\ UNCHANGED <<twin_, disk>>

\* twin_->insert(index), for the next slot of the order
TwinInsert ==
  /\ last.twin < Len(last.order)
  /\ twin_' = hnsw_insert(twin_, store_, last.order[last.twin + 1])
  /\ last' = HnswLast("twin_insert", last.order, last.twin + 1)
  /\ UNCHANGED <<hnsw_, disk>>

\* The graph of a finished build through save() and open(dir): save_hnsw
\* writes hnsw.bin, and load_hnsw reads it into a new Hnsw made with the
\* same metric and parameters, which takes the place of hnsw_.
HnswSaveOpen ==
  /\ last.op # "open"
  /\ Len(last.order) = HnswNodes
  /\ LET file == save_hnsw(hnsw_, store_, store_)
         g == load_hnsw(file, NewHnsw(opt_.metric, opt_.hnsw_params), store_)
     IN /\ disk' = [disk EXCEPT !.hnsw = file]
        /\ hnsw_' = g.h
        /\ last' = [HnswLast("open", last.order, last.twin) EXCEPT !.op =
                      IF g.err = "none" THEN "open" ELSE g.err]
  /\ UNCHANGED twin_

HnswNext ==
  /\ \/ \E index \in 0..(HnswNodes - 1) : HnswInsert(index)
     \/ TwinInsert
     \/ HnswSaveOpen
  /\ UNCHANGED <<store_, opt_, metadata_>>
  /\ UNCHANGED conc

SpecHnsw == HnswInit /\ [][HnswNext]_vars

-----------------------------------------------------------------------------
(* Properties of the graph, under SpecHnsw *)

\* the nodes of index h, and the layers node i has
Nodes(h) == 0..(Len(h.graph_) - 1)
Layers(h, i) == 0..(Len(h.graph_[i + 1]) - 1)

\* the neighbour list links[i][l], and the set of slots it names
Links(h, i, l) == h.graph_[i + 1][l + 1]
LinkSet(h, i, l) == {Links(h, i, l)[k] : k \in 1..Len(Links(h, i, l))}

DegreeBound(h) ==
  \A i \in Nodes(h) : \A l \in Layers(h, i) :
    Len(Links(h, i, l)) <= IF l = 0 THEN h.params.M0 ELSE h.params.M

\* C16: after every completed Hnsw::insert every neighbour list links[i][l]
\* has at most M0 entries when l = 0 and at most M entries when l > 0.
C16_DegreeBound == DegreeBound(hnsw_) /\ DegreeBound(twin_)

\* four slots are inserted, three of them reach layer 1 where M = 1, and
\* some node is at its bound on layer 0 and some node at its bound above
C16_Witness ==
  /\ last.op = "insert" /\ Len(last.order) = HnswNodes
  /\ Cardinality({i \in Nodes(hnsw_) : Len(hnsw_.graph_[i + 1]) >= 2}) >= 3
  /\ \E i \in Nodes(hnsw_) : Len(Links(hnsw_, i, 0)) = hnsw_.params.M0
  /\ \E i \in Nodes(hnsw_) : \E l \in Layers(hnsw_, i) :
       l > 0 /\ Len(Links(hnsw_, i, l)) = hnsw_.params.M
  /\ hnsw_.params.M < hnsw_.params.M0

LayerInvariant(h) ==
  \A i \in Nodes(h) : \A l \in Layers(h, i) : \A j \in LinkSet(h, i, l) :
    j \in Nodes(h) /\ Len(h.graph_[j + 1]) - 1 >= l

\* C17: in a graph under construction or built, and in the graph that
\* save() and open(dir) make of a built one, every neighbour j listed in
\* links[i][l] is present at layer l: node_level(j) >= l.
C17_LayerInvariant == LayerInvariant(hnsw_)

\* a built graph has been saved and reopened; it has a node on layer 0
\* only that has neighbours, and a node with a neighbour on layer 1
C17_Witness ==
  /\ last.op = "open"
  /\ \E i \in Nodes(hnsw_) :
       Len(hnsw_.graph_[i + 1]) = 1 /\ Links(hnsw_, i, 0) # <<>>
  /\ \E i \in Nodes(hnsw_) :
       Len(hnsw_.graph_[i + 1]) >= 2 /\ Links(hnsw_, i, 1) # <<>>

\* a and b are the same graph: the same level for every node, the same
\* neighbour sets on every layer, the same entry point and max_level
SameGraph(a, b) ==
  /\ Len(a.graph_) = Len(b.graph_)
  /\ \A i \in Nodes(a) :
       /\ Len(a.graph_[i + 1]) = Len(b.graph_[i + 1])
       /\ \A l \in Layers(a, i) : LinkSet(a, i, l) = LinkSet(b, i, l)
  /\ a.has_entry_ = b.has_entry_
  /\ a.entry_point_ = b.entry_point_
  /\ a.max_level_ = b.max_level_

-----------------------------------------------------------------------------
(* load() over damaged files.  Between a save() and the next one, one file *)
(* of the directory may be damaged from outside: made unreadable, given    *)
(* another magic, another count, or cut short.                             *)

LoadIds == {<<"a">>, <<"b">>}

BadMagic == "XXXXXXXX"

\* the ways each file can be damaged
Damages ==
  {<<"vectors", "unreadable">>, <<"vectors", "magic">>, <<"vectors", "size">>,
   <<"alive", "unreadable">>, <<"alive", "magic">>, <<"alive", "size">>,
   <<"ids", "unreadable">>,
   <<"hnsw", "magic">>, <<"hnsw", "size">>, <<"hnsw", "truncated">>,
   <<"hnsw", "links">>}

\* file f after the damage kind
Damaged(f, kind) ==
  CASE kind = "unreadable" -> NoFile
    [] kind = "magic" -> [f EXCEPT !.magic = BadMagic]
    [] kind = "size" -> [f EXCEPT !.N = @ + 1]
    [] kind = "truncated" -> [f EXCEPT !.nodes = SubSeq(@, 1, Len(@) - 1)]
    [] kind = "links" ->
         [f EXCEPT !.nodes = [i \in 1..Len(@) |->
            IF @[i].level >= 0 THEN [@[i] EXCEPT !.links = Append(@, <<>>)]
            ELSE @[i]]]

\* a file of the directory is damaged
Damage(name, kind) ==
  /\ last.op = "save"
  /\ disk[name].exists
  /\ kind \in {"truncated", "links"} => disk.hnsw.nodes # <<>>
  /\ disk' = [disk EXCEPT ![name] = Damaged(@, kind)]
  /\ last' = Last("damage", <<>>, 0, "none")
  /\ UNCHANGED <<store_, opt_, hnsw_>>

LoadNext ==
  /\ \/ \E id \in LoadIds, vec \in UpsertVecs : Upsert(id, vec)
     \/ BuildIndex
     \/ Save
     \/ Load
     \/ \E dm \in Damages : Damage(dm[1], dm[2])
  /\ UNCHANGED conc
  /\ UNCHANGED more

SpecLoad == Init /\ [][LoadNext]_vars

\* C19: a load() that fails leaves the collection as it was before the
\* call: the store is not replaced, and the index is the one it had (none,
\* if it had none).
C19_FailedLoadKeepsState ==
  [][(last'.op = "load" /\ last'.err # "none") =>
       (store_' = store_ /\ hnsw_' = hnsw_)
    ]_vars

\* the part of C19 that holds: a load() that fails in a store artifact
\* changes nothing, and one that fails in the graph file has read the store
C19_StoreFailureKeepsState ==
  [][(last'.op = "load" /\ last'.err # "none") =>
       \/ (store_' = store_ /\ hnsw_' = hnsw_)
       \/ /\ load_store(disk, store_).err = "none"
          /\ store_' = load_store(disk, store_).st
          /\ has_index(hnsw_')
    ]_vars

-----------------------------------------------------------------------------
(* Visited alone: one buffer, one caller, any sequence of start, test, set *)
(* and test_and_set.  The stamp counter wraps at StampWrap.                *)

VisitedSlots == 3   \* start(n) is called with n up to this

\* marked: the slots that set or test_and_set were called on since the last
\* start
VisitedLast(op, arg, ret, marked) ==
  [op |-> op, arg |-> arg, ret |-> ret, marked |-> marked]

VisitedInit ==
  /\ visited_ = NewVisited
  /\ last = VisitedLast("Visited", 0, FALSE, {})
  /\ store_ = EmptyStore
  /\ opt_ = [metric |-> "L2", hnsw_params |-> ParamsA]
  /\ hnsw_ = NoIndex
  /\ disk = EmptyDir
  /\ mtx_ = Unlocked
  /\ th = [t \in Threads |-> Idle]
  /\ metadata_ = <<>>
  /\ twin_ = NoIndex

\* start(n)
VisitedStart(n) ==
  /\ visited_' = visited_start(visited_, n)
  /\ last' = VisitedLast("start", n, FALSE, {})

\* test(i)
VisitedTest(i) ==
  /\ last' = VisitedLast("test", i, visited_test(visited_, i), last.marked)
  /\ UNCHANGED visited_

\* set(i), for a slot of the buffer
VisitedSet(i) ==
  /\ i < Len(visited_.mark)
  /\ visited_' = visited_set(visited_, i)
  /\ last' = VisitedLast("set", i, FALSE, last.marked \cup {i})

\* test_and_set(i), for a slot of the buffer
VisitedTestAndSet(i) ==
  /\ i < Len(visited_.mark)
  /\ LET r == test_and_set(visited_, i) IN
       /\ visited_' = r.v
       /\ last' = VisitedLast("test_and_set", i, r.was, last.marked \cup {i})

VisitedNext ==
  /\ \/ \E n \in 0..VisitedSlots : VisitedStart(n)
     \/ \E i \in 0..VisitedSlots : VisitedTest(i)
     \/ \E i \in 0..(VisitedSlots - 1) : VisitedSet(i)
     \/ \E i \in 0..(VisitedSlots - 1) : VisitedTestAndSet(i)
  /\ UNCHANGED <<coll, mtx_, th>>
  /\ UNCHANGED more

SpecVisited == VisitedInit /\ [][VisitedNext]_vars

\* C20: right after start(n), test(i) is false for every i < n, whatever
\* was marked before and whatever the stamp was, also when the stamp
\* counter has just wrapped (the marks are then all zero and the stamp is
\* 1); within one query test_and_set(i) returns false the first time for i
\* and true every later time, and test(i) is true from then on.
C20_FreshQuery ==
  [][/\ last'.op = "start" =>
          /\ \A i \in 0..(last'.arg - 1) : ~visited_test(visited_', i)
          /\ \A i \in 0..(Len(visited_'.mark) - 1) : ~visited_test(visited_', i)
          /\ visited_'.stamp # 0
          /\ visited_.stamp = StampWrap - 1 =>
               /\ visited_'.stamp = 1
               /\ \A i \in 1..Len(visited_'.mark) : visited_'.mark[i] = 0
     /\ last'.op = "test_and_set" =>
          /\ last'.ret = (last'.arg \in last.marked)
          /\ visited_test(visited_', last'.arg)
     /\ last'.op = "test" =>
          last'.ret = (last'.arg \in last.marked)
    ]_vars

\* the stamp has wrapped, and in the query begun by that start a slot
\* marked in earlier queries was marked again and then found marked
C20_Witness ==
  /\ last.op = "test_and_set" /\ last.ret = TRUE
  /\ visited_.stamp = 1
  /\ Len(visited_.mark) = VisitedSlots

-----------------------------------------------------------------------------
(* Distance alone: the functions of Distance applied to every pair of      *)
(* vectors of DistVecs.  The vectors have integer coordinates and integer  *)
(* norms (0, 1, 2 and 5), so that norm, the product of the norms and the   *)
(* quotient in units of 1/CosScale are exact; a product of norms below     *)
(* 1e-12 is here the product 0.                                            *)

DistVecs ==
  {<<0, 0>>, <<1, 0>>, <<0, 1>>, <<3, 4>>, <<4, 3>>,
   <<-1, 0>>, <<0, -1>>, <<-3, 4>>, <<2, 0>>, <<0, 2>>}

DistLast(op, metric, a, b, ret) ==
  [op |-> op, metric |-> metric, a |-> a, b |-> b, ret |-> ret]

DistInit ==
  /\ last = DistLast("none", "L2", <<0, 0>>, <<0, 0>>, 0)
  /\ store_ = EmptyStore
  /\ opt_ = [metric |-> "L2", hnsw_params |-> ParamsA]
  /\ hnsw_ = NoIndex
  /\ disk = EmptyDir
  /\ mtx_ = Unlocked
  /\ visited_ = NewVisited
  /\ th = [t \in Threads |-> Idle]
  /\ metadata_ = <<>>
  /\ twin_ = NoIndex

\* Distance::cosine_similarity(a, b, dim)
DistCosineSimilarity(a, b) ==
  last' = DistLast("cosine_similarity", "COSINE", a, b, cosine_similarity(a, b))

\* Distance::cosine_distance(a, b, dim)
DistCosineDistance(a, b) ==
  last' = DistLast("cosine_distance", "COSINE", a, b, cosine_distance(a, b))

\* Distance::distance(metric, a, b, dim)
DistDistance(metric, a, b) ==
  last' = DistLast("distance", metric, a, b, distance(metric, a, b))

DistNext ==
  /\ \E a \in DistVecs, b \in DistVecs :
       \/ DistCosineSimilarity(a, b)
       \/ DistCosineDistance(a, b)
       \/ \E metric \in Metrics : DistDistance(metric, a, b)
  /\ UNCHANGED <<coll, conc, more>>

SpecDist == DistInit /\ [][DistNext]_vars

\* the product of the norms is below the threshold of cosine_similarity
ZeroNorm(a, b) == norm(a) * norm(b) = 0

\* C22: cosine_distance(a, b) is 0 whenever norm(a) * norm(b) is below the
\* threshold, in particular when a or b is the zero vector, and
\* distance(COSINE, a, b) returns what cosine_distance(a, b) returns.
C22_ZeroNormCosine ==
  /\ (last.op = "cosine_distance" /\ ZeroNorm(last.a, last.b)) => last.ret = 0
  /\ (last.op = "distance" /\ last.metric = "COSINE") =>
       /\ last.ret = cosine_distance(last.a, last.b)
       /\ ZeroNorm(last.a, last.b) => last.ret = 0

\* what the code does keep: distance(COSINE, ...) is cosine_distance, the
\* zero-norm case of cosine_similarity is 0, and so the zero-norm distance
\* is 1 (CosScale units), not 0
C22_ZeroNormIsOne ==
  /\ (last.op = "distance" /\ last.metric = "COSINE") =>
       last.ret = cosine_distance(last.a, last.b)
  /\ (last.op = "cosine_similarity" /\ ZeroNorm(last.a, last.b)) => last.ret = 0
  /\ (last.op \in {"cosine_distance", "distance"} /\ last.metric = "COSINE"
        /\ ZeroNorm(last.a, last.b)) => last.ret = CosScale

-----------------------------------------------------------------------------
(* random_level alone: an index made with a seed of LevelSeeds and a       *)
(* level_mult of LevelMults draws the levels of its first MaxDraws inserts.*)

MaxDraws == 6

LevelSeeds == {0, 5, 42, 123}

LevelMults == {0, 1, 2, 100, 1000000000}

LevelLast(op, lvl, draws) == [op |-> op, lvl |-> lvl, draws |-> draws]

LevelInit ==
  /\ opt_ \in [metric : {"L2"},
               hnsw_params : [M : {2}, M0 : {2}, ef_construction : {3},
                              use_diversity : {TRUE}, seed : LevelSeeds,
                              level_mult : LevelMults]]
  /\ hnsw_ = NewHnsw(opt_.metric, opt_.hnsw_params)
  /\ last = LevelLast("Hnsw", 0, 0)
  /\ store_ = EmptyStore
  /\ disk = EmptyDir
  /\ mtx_ = Unlocked
  /\ visited_ = NewVisited
  /\ th = [t \in Threads |-> Idle]
  /\ metadata_ = <<>>
  /\ twin_ = NoIndex

\* hnsw_->random_level(), as insert calls it
LevelDraw ==
  /\ last.draws < MaxDraws
  /\ LET r == random_level(hnsw_) IN
       /\ hnsw_' = r.h
       /\ last' = LevelLast("random_level", r.lvl, last.draws + 1)
  /\ UNCHANGED <<store_, opt_, disk, conc, more>>

LevelNext == LevelDraw

SpecLevel == LevelInit /\ [][LevelNext]_vars

\* C23: every level random_level returns is in 0..64, for every seed and
\* every level_mult (the draw itself always returns: the loop runs at
\* most 65 times).
C23_LevelCap == last.op = "random_level" => last.lvl \in 0..64

\* what the loop does guarantee: it leaves at 65
C23_LevelAtMost65 == last.op = "random_level" => last.lvl \in 0..65

-----------------------------------------------------------------------------
(* select_neighbors_diverse alone: a store of DivNodes alive slots with    *)
(* vectors of DivVecs; for a base slot and a limit M the candidates are    *)
(* the other slots in ascending distance to the base, as prune_neighbors   *)
(* builds them.  (2,0) and (1,2) are at the same distance from each other  *)
(* as (1,2) is from (0,0).                                                 *)

DivNodes == 4

DivVecs == {<<0, 0>>, <<2, 0>>, <<1, 2>>, <<-3, 0>>, <<3, 4>>}

DivMs == {1, 2, 3}

\* first: what the first loop selected; selected: what the call returned
DivLast(op, base, M, cand, first, selected) ==
  [op |-> op, base |-> base, M |-> M, cand |-> cand, first |-> first,
   selected |-> selected]

DivInit ==
  /\ store_ \in {StoreOf(vs) : vs \in [1..DivNodes -> DivVecs]}
  /\ opt_ = [metric |-> "L2", hnsw_params |-> ParamsA]
  /\ hnsw_ = NewHnsw(opt_.metric, opt_.hnsw_params)
  /\ last = DivLast("Hnsw", 0, 0, <<>>, <<>>, <<>>)
  /\ disk = EmptyDir
  /\ mtx_ = Unlocked
  /\ visited_ = NewVisited
  /\ th = [t \in Threads |-> Idle]
  /\ metadata_ = <<>>
  /\ twin_ = NoIndex

\* the slots of the store other than base, in slot order
OtherNodes(s, base) ==
  LET all == [k \in 1..size(s) |-> k - 1]
  IN SelectSeq(all, LAMBDA i : i # base)

\* select_neighbors_diverse(base, cand, M) on the sorted candidates
DivSelect(base, M) ==
  LET nbrs == OtherNodes(store_, base)
      sorted == PruneCand(hnsw_, store_, get_ptr(store_, base), nbrs, Len(nbrs))
      cand == [k \in 1..Len(sorted) |-> Result(sorted[k])]
  IN /\ last' = DivLast("select", base, M, cand,
                        DiversePass(hnsw_, store_, base, cand, M, 1, <<>>),
                        select_neighbors_diverse(hnsw_, store_, base, cand, M))
     /\ UNCHANGED <<coll, conc, more>>

DivNext == \E base \in 0..(DivNodes - 1), M \in DivMs : DivSelect(base, M)

SpecDiverse == DivInit /\ [][DivNext]_vars

\* position of slot c in the candidate list
CandPos(cand, c) == CHOOSE k \in 1..Len(cand) : cand[k].index = c

\* the selected neighbours that the walk met before candidate k
SelectedBefore(cand, sel, k) ==
  {j \in 1..Len(sel) : CandPos(cand, sel[j]) < k}

\* dist(c, b) against dist(c, s): strictly less, or less or equal
FarEnough(strict, dcb, dcs) == IF strict THEN dcb < dcs ELSE dcb <= dcs

\* sel is what a walk over cand in order selects when it accepts a candidate
\* exactly if it is FarEnough from every neighbour selected before it, and
\* stops at M
FirstPassRule(strict, s, metric, cand, M, sel) ==
  /\ \A j \in 1..Len(sel) : \E k \in 1..Len(cand) : cand[k].index = sel[j]
  /\ \A i, j \in 1..Len(sel) :
       i < j => CandPos(cand, sel[i]) < CandPos(cand, sel[j])
  /\ Len(sel) <= M
  /\ \A k \in 1..Len(cand) :
       LET before == SelectedBefore(cand, sel, k) IN
       IF Cardinality(before) >= M THEN ~InSeq(cand[k].index, sel)
       ELSE InSeq(cand[k].index, sel) <=>
              \A j \in before :
                 FarEnough(strict, cand[k].distance,
                           distance(metric, get_ptr(s, cand[k].index),
                                    get_ptr(s, sel[j])))

\* C24: in the first pass over the candidates, in ascending distance to the
\* base b, a candidate c is accepted if and only if dist(c, b) is strictly
\* less than dist(c, s) for every neighbour s selected so far, and the pass
\* stops once M are selected.
C24_FirstPassStrict ==
  last.op = "select" =>
    FirstPassRule(TRUE, store_, hnsw_.metric_, last.cand, last.M, last.first)

\* what the first pass does: it rejects c only when some selected s is
\* strictly closer to c than the base is, so a tie is accepted
C24_FirstPassAcceptsTies ==
  last.op = "select" =>
    FirstPassRule(FALSE, store_, hnsw_.metric_, last.cand, last.M, last.first)

-----------------------------------------------------------------------------
(* Hnsw::search and search_level on an index over a store whose slots are  *)
(* inserted in slot order and may be removed from the store at any time    *)
(* (the index is not told).                                                *)

SrchQs == {<<1, 0>>}
SrchKs == {0, 1, 3}
SrchEfs == {0, 2}

\* seed 5 draws the levels 1, 1, 0, 1 for the first four inserts
SrchParams ==
  [M |-> 1, M0 |-> 2, ef_construction |-> 3, use_diversity |-> TRUE,
   seed |-> 5, level_mult |-> 1]

\* order: the slots insert was called on; res: what the last search returned
SrchLast(op, order, query, k, ef, entry, level, res) ==
  [op |-> op, order |-> order, query |-> query, k |-> k, ef |-> ef,
   entry |-> entry, level |-> level, res |-> res]

SrchInit ==
  /\ store_ \in {StoreOf(vs) : vs \in [1..HnswNodes -> HnswVecs]}
  /\ opt_ = [metric |-> "L2", hnsw_params |-> SrchParams]
  /\ hnsw_ = NewHnsw(opt_.metric, opt_.hnsw_params)
  /\ twin_ = NoIndex
  /\ last = SrchLast("Hnsw", <<>>, <<>>, 0, 0, 0, 0, <<>>)
  /\ metadata_ = <<>>
  /\ disk = EmptyDir
  /\ mtx_ = Unlocked
  /\ visited_ = NewVisited
  /\ th = [t \in Threads |-> Idle]

\* hnsw_->insert(i) for the next slot
SrchInsert ==
  /\ Len(last.order) < size(store_)
  /\ hnsw_' = hnsw_insert(hnsw_, store_, Len(last.order))
  /\ last' = SrchLast("insert", Append(last.order, Len(last.order)),
                      <<>>, 0, 0, 0, 0, <<>>)
  /\ UNCHANGED store_

\* store.remove(id) of an alive slot
SrchRemove(index) ==
  /\ is_alive(store_, index)
  /\ store_' = remove(store_, id_at(store_, index)).st
  /\ last' = SrchLast("remove", last.order, <<>>, 0, 0, 0, 0, <<>>)
  /\ UNCHANGED hnsw_

\* hnsw_->search(query, k, ef_search)
SrchSearch(query, k, ef_search) ==
  /\ last' = SrchLast("search", last.order, query, k, ef_search, 0, 0,
                      hnsw_search(hnsw_, store_, query, k, ef_search))
  /\ UNCHANGED <<store_, hnsw_>>

\* search_level(query, entry, level, ef)
SrchLevel(query, entry, level, ef) ==
  /\ last' = SrchLast("search_level", last.order, query, 0, ef, entry, level,
                      search_level(hnsw_, store_, query, entry, level, ef))
  /\ UNCHANGED <<store_, hnsw_>>

SrchNext ==
  /\ \/ SrchInsert
     \/ \E index \in 0..(HnswNodes - 1) : SrchRemove(index)
     \/ \E query \in SrchQs, k \in SrchKs, ef \in SrchEfs : SrchSearch(query, k, ef)
     \/ \E query \in SrchQs, entry \in 0..(HnswNodes - 1), level \in 0..1,
           ef \in SrchEfs : SrchLevel(query, entry, level, ef)
  /\ UNCHANGED <<opt_, disk, conc, more>>

SpecSearch == SrchInit /\ [][SrchNext]_vars

\* res holds at most n results, all distinct alive slots of s with their
\* distance to the query, in ascending order of distance
GoodResult(s, metric, query, res, n) ==
  /\ Len(res) <= n
  /\ \A i, j \in 1..Len(res) : i # j => res[i].index # res[j].index
  /\ \A i \in 1..Len(res) :
       /\ is_alive(s, res[i].index)
       /\ res[i].distance = distance(metric, query, get_ptr(s, res[i].index))
  /\ \A i \in 1..(Len(res) - 1) : res[i].distance <= res[i + 1].distance

\* C25: search(q, k, ef_search) returns at most k results and search_level
\* at most ef, at layer 0 with ef = max(ef_search, k); the returned slots
\* are pairwise distinct, alive in the store when the search runs, and in
\* ascending order of distance; with an empty graph, k = 0, ef = 0 or a
\* dead entry point the result is empty.
C25_SearchResult ==
  /\ last.op = "search" =>
       /\ GoodResult(store_, hnsw_.metric_, last.query, last.res, last.k)
       /\ (~hnsw_.has_entry_ \/ last.k = 0
             \/ ~is_alive(store_, hnsw_.entry_point_)) => last.res = <<>>
       /\ (hnsw_.has_entry_ /\ last.k > 0) =>
            LET ep == Descend(hnsw_, store_, last.query, hnsw_.entry_point_,
                              hnsw_.max_level_, 0)
                ef == Max(last.ef, last.k)
                bottom == search_level(hnsw_, store_, last.query, ep, 0, ef)
            IN /\ GoodResult(store_, hnsw_.metric_, last.query, bottom, ef)
               /\ last.res = SubSeq(bottom, 1, Min(last.k, Len(bottom)))
  /\ last.op = "search_level" =>
       /\ GoodResult(store_, hnsw_.metric_, last.query, last.res, last.ef)
       /\ (~hnsw_.has_entry_ \/ last.ef = 0
             \/ ~is_alive(store_, last.entry)) => last.res = <<>>

\* a search for three over a graph of four nodes, one of them removed from
\* the store since, has returned three results
C25_Witness ==
  /\ last.op = "search" /\ last.k = 3 /\ Len(last.res) = 3
  /\ Len(last.order) = HnswNodes
  /\ \E i \in 0..(HnswNodes - 1) :
       ~is_alive(store_, i) /\ node_level(hnsw_, i) >= 0

\* a search on an index whose entry point has been removed from the store
C25_WitnessDeadEntry ==
  /\ last.op = "search" /\ last.k > 0 /\ hnsw_.has_entry_
  /\ ~is_alive(store_, hnsw_.entry_point_)
  /\ \E i \in 0..(HnswNodes - 1) : is_alive(store_, i) /\ node_level(hnsw_, i) >= 0

-----------------------------------------------------------------------------
(* The index of a Collection against the Collection's store *)

\* the nodes of h are exactly the alive slots of s, the links of h name
\* alive slots of s only, and a store with an alive slot has an alive entry
GraphMatchesStore(h, s) ==
  /\ Len(h.graph_) <= size(s)
  /\ \A i \in 0..(size(s) - 1) : node_level(h, i) >= 0 <=> is_alive(s, i)
  /\ \A i \in Nodes(h) : \A l \in Layers(h, i) : \A j \in LinkSet(h, i, l) :
       j < size(s) /\ is_alive(s, j)
  /\ (\E i \in 0..(size(s) - 1) : is_alive(s, i)) =>
       h.has_entry_ /\ is_alive(s, h.entry_point_)

\* C26: whenever the collection has an index, after build_index and after
\* open or load of a saved index, a slot has a graph level >= 0 exactly if
\* it is alive, no neighbour list names a dead or out-of-range slot, and
\* if a slot is alive the entry point is an alive slot.
C26_GraphMatchesStore == has_index(hnsw_) => GraphMatchesStore(hnsw_, store_)


\* The collection in a build that elides the copy in open (the index's
\* store reference is then always good): the same operations, open handing
\* out its local itself.
OpenElided == Open /\ (hnsw_'.present => hnsw_'.store_ref = "own")

NextElided ==
  /\ \/ \E id \in Ids, vec \in UpsertVecs \cup {BadVec} : Upsert(id, vec)
     \/ \E id \in Ids : Remove(id)
     \/ \E m \in Metrics : SetMetric(m)
     \/ \E p \in ParamChoices : SetHnswParams(p)
     \/ BuildIndex
     \/ \E q \in SearchQs, k \in SearchKs, ef \in SearchEfs : Search(q, k, ef)
     \/ Save
     \/ Load
     \/ OpenElided
  /\ UNCHANGED conc
  /\ UNCHANGED more

SpecElided == Init /\ [][NextElided]_vars

\* what holds: in a build that elides the copy in open no load fails on the
\* graph file, and every index matches the store
C26_MatchesWhenElided == C26_GraphMatchesStore

-----------------------------------------------------------------------------
(* Hnsw::insert under several seeds: one index over a store of HnswNodes   *)
(* alive slots, each slot inserted once, in any order.  Seed 123 draws the *)
(* levels 1, 3, 3, 0, seed 42 the levels 2, 1, 1, 1, seed 5 the levels     *)
(* 1, 1, 0, 1.                                                             *)

EntrySeeds == {5, 42, 123}

EntryInit ==
  /\ store_ \in {StoreOf(vs) : vs \in [1..HnswNodes -> HnswVecs]}
  /\ opt_ \in [metric : {"L2"},
               hnsw_params : [M : {1}, M0 : {2}, ef_construction : {3},
                              use_diversity : {TRUE}, seed : EntrySeeds,
                              level_mult : {1}]]
  /\ hnsw_ = NewHnsw(opt_.metric, opt_.hnsw_params)
  /\ twin_ = NoIndex
  /\ last = HnswLast("Hnsw", <<>>, 0)
  /\ metadata_ = <<>>
  /\ disk = EmptyDir
  /\ mtx_ = Unlocked
  /\ visited_ = NewVisited
  /\ th = [t \in Threads |-> Idle]

EntryNext ==
  /\ \E index \in 0..(HnswNodes - 1) : HnswInsert(index)
  /\ UNCHANGED <<store_, opt_, metadata_>>
  /\ UNCHANGED conc

SpecEntry == EntryInit /\ [][EntryNext]_vars

\* the largest level of a node of h (-1 when h has no node)
TopLevel(h) ==
  CHOOSE m \in -1..65 :
    /\ \A i \in Nodes(h) : node_level(h, i) <= m
    /\ m = -1 \/ \E i \in Nodes(h) : node_level(h, i) = m

-----------------------------------------------------------------------------
(* The Collection under changes of its options: upsert, set_metric,        *)
(* set_hnsw_params, build_index, save and load, with two parameter sets.   *)

OptParams == {ParamsA, ParamsB}

\* Collection::create(dir, opt)
OptInit ==
  /\ opt_ \in [metric : Metrics, hnsw_params : OptParams]
  /\ store_ = EmptyStore
  /\ hnsw_ = NoIndex
  /\ disk = SaveAll(EmptyDir, EmptyStore, opt_, NoIndex)
  /\ last = Last("create", <<>>, 0, "none")
  /\ mtx_ = Unlocked
  /\ visited_ = NewVisited
  /\ th = [t \in Threads |-> Idle]
  /\ metadata_ = <<>>
  /\ twin_ = NoIndex

OptNext ==
  /\ \/ \E id \in LoadIds, vec \in UpsertVecs : Upsert(id, vec)
     \/ \E m \in Metrics : SetMetric(m)
     \/ \E p \in OptParams : SetHnswParams(p)
     \/ BuildIndex
     \/ Save
     \/ Load
  /\ UNCHANGED conc
  /\ UNCHANGED more

SpecOpt == OptInit /\ [][OptNext]_vars

\* the graph that build_index makes of store s under options opt
BuiltUnder(opt, s) ==
  export_graph(BuildLoop(NewHnsw(opt.metric, opt.hnsw_params), s, 0), s)

\* C28: whenever the collection has an index, its graph is the one built
\* under the metric and the HNSW parameters the collection now has: no
\* sequence of set_metric, set_hnsw_params, build_index, save and load
\* leaves attached a graph built under another metric or other parameters.
C28_IndexUnderCurrentOptions ==
  has_index(hnsw_) =>
    /\ hnsw_.metric_ = opt_.metric
    /\ hnsw_.params = opt_.hnsw_params
    /\ export_graph(hnsw_, store_) = BuiltUnder(opt_, store_)

\* the same collection when load is never called
OptNextNoLoad == OptNext /\ last'.op # "load"

SpecOptNoLoad == OptInit /\ [][OptNextNoLoad]_vars

\* what holds: the index object always carries the collection's current
\* options
C28_IndexObjectCurrent ==
  has_index(hnsw_) =>
    hnsw_.metric_ = opt_.metric /\ hnsw_.params = opt_.hnsw_params

\* what holds: without load the graph of an index is always the one built
\* under the current options
C28_CurrentWithoutLoad ==
  has_index(hnsw_) => export_graph(hnsw_, store_) = BuiltUnder(opt_, store_)

-----------------------------------------------------------------------------
(* One-sided edges, under SpecHnsw *)

\* j is listed by i on layer l and does not list i there
OneSided(h, i, j, l) ==
  /\ i \in Nodes(h) /\ j \in Nodes(h)
  /\ l \in Layers(h, i) /\ l \in Layers(h, j)
  /\ j \in LinkSet(h, i, l)
  /\ i \notin LinkSet(h, j, l)

OneSidedOnlyByPrune(h) ==
  \A i \in Nodes(h), j \in Nodes(h) : \A l \in Layers(h, i) :
    OneSided(h, i, j, l) => Len(Links(h, j, l)) = max_deg(h, l)

\* C29: in a graph that inserts have built, an edge is one-sided only
\* because of pruning: if j is in links[i][l] and i is not in links[j][l],
\* then links[j][l] holds exactly max_degree(l) neighbours.
C29_OneSidedOnlyByPrune ==
  OneSidedOnlyByPrune(hnsw_) /\ OneSidedOnlyByPrune(twin_)

\* the four slots were inserted in slot order, as build_index does, and the
\* graph has a one-sided edge on layer 0 and one on layer 1
C29_Witness ==
  /\ last.op = "insert" /\ last.order = <<0, 1, 2, 3>>
  /\ \E i \in Nodes(hnsw_), j \in Nodes(hnsw_) : OneSided(hnsw_, i, j, 0)
  /\ \E i \in Nodes(hnsw_), j \in Nodes(hnsw_) : OneSided(hnsw_, i, j, 1)

-----------------------------------------------------------------------------
(* Small collections: a Collection of up to ScanMaxSlots slots under       *)
(* upsert, remove, build_index and search, with parameter sets for which   *)
(* three alive slots are few (ParamsA), too many for M (ParamsB), and too  *)
(* many for ef_construction (ParamsC).                                     *)

ParamsC == [ParamsA EXCEPT !.ef_construction = 1]

SmallParams == {ParamsA, ParamsB, ParamsC}

SmallVecs == {<<1, 0>>, <<0, 1>>, <<3, 4>>}
SmallQs == {<<1, 0>>, <<4, 3>>}
SmallKs == {0, 2, 3}
SmallEfs == {1, 3}

\* Collection::create(dir, opt)
SmallInit ==
  /\ opt_ \in [metric : {"L2"}, hnsw_params : SmallParams]
  /\ store_ = EmptyStore
  /\ metadata_ = <<>>
  /\ hnsw_ = NoIndex
  /\ disk = EmptyDir
  /\ last = Last("create", <<>>, 0, "none")
  /\ mtx_ = Unlocked
  /\ visited_ = NewVisited
  /\ th = [t \in Threads |-> Idle]
  /\ twin_ = NoIndex

\* Collection::search(query, k, ef_search)
SmallSearch(query, k, ef_search) ==
  /\ \E o \in SearchOutcomes(hnsw_, store_, query, k, ef_search) :
       last' = [op |-> "search", query |-> query, k |-> k, ef |-> ef_search,
                err |-> o.err, res |-> o.res]
  /\ UNCHANGED <<coll, metadata_>>

SmallNext ==
  /\ \/ \E id \in ScanIds, vec \in SmallVecs : ScanUpsert(id, vec, NoMeta)
     \/ \E id \in ScanIds : ScanRemove(id)
     \/ ScanBuildIndex
     \/ \E q \in SmallQs, k \in SmallKs, ef \in SmallEfs : SmallSearch(q, k, ef)
  /\ UNCHANGED conc
  /\ UNCHANGED twin_

SpecSmall == SmallInit /\ [][SmallNext]_vars

\* the collection is small for its parameters
SmallCollection(s, p) ==
  /\ Cardinality(AliveSlots(s)) <= Min(p.M, p.M0) + 1
  /\ p.ef_construction >= Cardinality(AliveSlots(s))

\* every two nodes present on a layer list each other there
FullyLinked(h) ==
  \A i \in Nodes(h), j \in Nodes(h) : \A l \in Layers(h, i) :
    (i # j /\ l \in Layers(h, j)) => j \in LinkSet(h, i, l)

\* the distances from the query to the alive vectors are pairwise distinct
DistinctDistances(s, metric, query) ==
  \A i \in AliveSlots(s), j \in AliveSlots(s) :
    i # j => distance(metric, query, get_ptr(s, i))
               # distance(metric, query, get_ptr(s, j))

\* C30: in a collection whose alive slots are at most min(M, M0) + 1 and
\* at most ef_construction, build_index links every two nodes present on a
\* layer, and search(q, k, ef) returns the slots brute-force search(q, k)
\* returns, in the same order, for every query whose distances to the
\* alive vectors are pairwise distinct.
C30_SmallExact ==
  (has_index(hnsw_) /\ SmallCollection(store_, opt_.hnsw_params)) =>
    /\ FullyLinked(hnsw_)
    /\ (last.op = "search" /\ last.err = "none"
          /\ DistinctDistances(store_, opt_.metric, last.query)) =>
         \A o \in BfOutcomes(store_, opt_.metric, last.query, last.k) :
            /\ o.err = "none"
            /\ last.res = o.res

\* three alive slots with M = M0 = 2, searched for all three with
\* ef_search = 1: the nearest slot is not the first slot, and the node
\* levels differ
C30_Witness ==
  /\ last.op = "search" /\ last.err = "none" /\ last.k = 3 /\ last.ef = 1
  /\ has_index(hnsw_) /\ SmallCollection(store_, opt_.hnsw_params)
  /\ DistinctDistances(store_, opt_.metric, last.query)
  /\ Cardinality(AliveSlots(store_)) = 3
  /\ Len(last.res) = 3 /\ last.res[1].index # 0
  /\ \E i \in Nodes(hnsw_), j \in Nodes(hnsw_) :
       node_level(hnsw_, i) # node_level(hnsw_, j)

=============================================================================
